---- MODULE Spec2Model ----
(***************************************************************************)
(* A model of the adversarial detection simulation of Mirage:              *)
(*   - generateSensorEvent and runDetectionLogic (the sensor detection     *)
(*     model and the rule engine; the code sits in the second half of      *)
(*     src/features/whisper_network/WhisperNetwork.tsx),                   *)
(*   - runSimulationPromise, the tick loop of AdversarialSimulator.tsx,    *)
(*   - the PRNG of src/utils/prng.ts,                                      *)
(*   - generateAdversarialScenario and generateRulePatch of                *)
(*     src/services/geminiService.ts, and handleStartScenario, the Run and *)
(*     Reset buttons and the opening and closing of the simulator view.    *)
(*                                                                         *)
(* Numbers.  Probabilities and confidences are exact rationals [n, d];     *)
(* the record [n |-> 0, d |-> 0] stands for NaN (0/0), with which every    *)
(* comparison is false, as in JavaScript.  IEEE rounding is not modelled.  *)
(*                                                                         *)
(* Geometry.  All points of the model's map lie on one meridian, where the *)
(* haversine distance R * c of getDistance is R * |dLat|; a position is    *)
(* the number of metres along that meridian.                               *)
(*                                                                         *)
(* Randomness.  A call of prng.random() returns a value chosen from RSet   *)
(* (hundredths in [0,1)); prngCalls counts the calls.  The generator       *)
(* itself is modelled bit by bit in the PRNG section (SpecPrng).           *)
(***************************************************************************)
EXTENDS Integers, Sequences, FiniteSets, TLC

VARIABLES
    runStarted,      \* runSimulationPromise has been called
    intervalActive,  \* the setInterval timer of the run has not been cleared
    resolved,        \* the arguments of the resolve() calls of the run, in order
    currentActors,   \* let currentActors
    detectionState,  \* let detectionState
    sensors,         \* parameter sensors of the run
    rules,           \* parameter rules of the run
    events,          \* React state events (setEvents)
    clock,           \* the last value Date.now() returned
    prngCalls,       \* number of prng.random() calls so far
    tickCount,       \* number of interval callbacks executed
    lastTick,        \* what the last interval callback did
    gsIn,            \* arguments of the last generateSensorEvent call
    gsOut,           \* its result
    gsPrev,          \* arguments and result of the call before it
    rdl,             \* the calls of runDetectionLogic a caller other than the
                     \* tick loop has made, and what the last one returned
    prngs,           \* PRNG objects constructed from one seed, and what their
                     \* next() calls returned
    session          \* the AdversarialSimulator component: its React state and
                     \* the position of handleStartScenario

orchVars == <<runStarted, intervalActive, resolved, currentActors, detectionState,
              sensors, rules, events, clock, prngCalls, tickCount, lastTick>>
detVars == <<gsIn, gsOut, gsPrev>>
ruleVars == <<rdl>>
prngVars == <<prngs>>
sessVars == <<session>>
vars == <<orchVars, detVars, ruleVars, prngVars, sessVars>>

-----------------------------------------------------------------------------
(* Rational arithmetic on records [n, d].                                  *)

\* F applied to the value of v: v is evaluated once, however often F uses it
Bind(v, F(_)) == CHOOSE res \in {F(x) : x \in {v}} : TRUE

Abs(x) == IF x < 0 THEN -x ELSE x

RECURSIVE GCD(_, _)
GCD(a, b) == IF b = 0 THEN a ELSE Bind(a % b, LAMBDA m : GCD(b, m))

NaN == [n |-> 0, d |-> 0]

\* x / y of two numbers; only 0/0 (NaN) occurs with y = 0 in this model
RatOf(x, y) ==
    IF y = 0 THEN NaN
    ELSE Bind(GCD(Abs(x), Abs(y)), LAMBDA g :
            IF y < 0 THEN [n |-> -(x \div g), d |-> -(y \div g)]
                     ELSE [n |-> x \div g, d |-> y \div g])
Rat(x, y) == Bind(<<x, y>>, LAMBDA p : RatOf(p[1], p[2]))

IsNaN(a) == a.d = 0
RatMul(a, b) == Bind(<<a, b>>, LAMBDA p : RatOf(p[1].n * p[2].n, p[1].d * p[2].d))
RatOneMinus(a) == Bind(a, LAMBDA p : RatOf(p.d - p.n, p.d))
RatLess(a, b) == a.d # 0 /\ b.d # 0 /\ a.n * b.d < b.n * a.d
RatLeq(a, b) == a.d # 0 /\ b.d # 0 /\ a.n * b.d <= b.n * a.d
RatEq(a, b) == a.d # 0 /\ b.d # 0 /\ a.n * b.d = b.n * a.d
Zero == Rat(0, 1)
One == Rat(1, 1)

-----------------------------------------------------------------------------
(* Detection model.                                                        *)

\* getDistance on the model's meridian
getDistance(pos1, pos2) == Abs(pos2 - pos1)

\* sensor.weather_penalty[weather] is truthy: present, not 0 and not NaN
PenaltyApplies(sensor, weather) ==
    /\ weather \in DOMAIN sensor.weather_penalty
    /\ sensor.weather_penalty[weather].n # 0

\* the adversary's stealth factor 0.8
StealthFactor(actor) == IF actor.type = "adversary" THEN Rat(8, 10) ELSE One

\* the mutants of DetectionProb
DetectionProbNoStealth(actor, sensor, weather) ==
    LET distance == getDistance(actor.pos, sensor.pos)
        p0 == sensor.base_p
        p1 == IF PenaltyApplies(sensor, weather)
              THEN RatMul(p0, sensor.weather_penalty[weather]) ELSE p0
    IN RatMul(p1, RatOneMinus(Rat(distance, sensor.range)))
DetectionProbNoFalloff(actor, sensor, weather) ==
    LET p0 == sensor.base_p
        p1 == IF PenaltyApplies(sensor, weather)
              THEN RatMul(p0, sensor.weather_penalty[weather]) ELSE p0
    IN RatMul(p1, StealthFactor(actor))

\* detectionProb of generateSensorEvent for an in-range pair
DetectionProb(actor, sensor, weather) ==
    LET distance == getDistance(actor.pos, sensor.pos)
        p0 == sensor.base_p
        p1 == IF PenaltyApplies(sensor, weather)
              THEN RatMul(p0, sensor.weather_penalty[weather]) ELSE p0
        p2 == RatMul(p1, RatOneMinus(Rat(distance, sensor.range)))
    IN RatMul(p2, StealthFactor(actor))

\* the mutant of InRange: the range check dropped
InRangeAlways(actor, sensor) == TRUE

\* distance <= sensor.range
InRange(actor, sensor) == getDistance(actor.pos, sensor.pos) <= sensor.range

\* the mutant of generateSensorEvent: prng.random() <= detectionProb
generateSensorEventAtMost(actor, sensor, weather, r, ts) ==
    IF InRange(actor, sensor)
    THEN Bind(DetectionProb(actor, sensor, weather), LAMBDA detectionProb :
            [ev |-> IF RatLeq(r, detectionProb)
                    THEN <<[timestamp |-> ts, sensorId |-> sensor.id,
                            actorId |-> actor.id, confidence |-> detectionProb,
                            actorPos |-> actor.pos]>>
                    ELSE <<>>,
             draws |-> 1,
             computed |-> TRUE,
             prob |-> detectionProb])
    ELSE [ev |-> <<>>, draws |-> 0, computed |-> FALSE, prob |-> NaN]

\* generateSensorEvent: ev holds the event (no element for null), draws is the
\* number of prng.random() calls made, prob the detectionProb computed (NaN
\* when the pair is out of range and none is computed); r is the value the
\* PRNG returns if it is called and ts the value of Date.now()
generateSensorEvent(actor, sensor, weather, r, ts) ==
    IF InRange(actor, sensor)
    THEN Bind(DetectionProb(actor, sensor, weather), LAMBDA detectionProb :
            [ev |-> IF RatLess(r, detectionProb)
                    THEN <<[timestamp |-> ts, sensorId |-> sensor.id,
                            actorId |-> actor.id, confidence |-> detectionProb,
                            actorPos |-> actor.pos]>>
                    ELSE <<>>,
             draws |-> 1,
             computed |-> TRUE,
             prob |-> detectionProb])
    ELSE [ev |-> <<>>, draws |-> 0, computed |-> FALSE, prob |-> NaN]

-----------------------------------------------------------------------------
(* Rule engine.                                                            *)

\* a value of the rolling state: a list of events or a number (a cooldown)
ListVal(l) == [isNum |-> FALSE, num |-> 0, list |-> l]
NumVal(x) == [isNum |-> TRUE, num |-> x, list |-> <<>>]

\* the mutant of AdversaryId: every actor's id counts as the adversary's
AdversaryIdAnyActor(actors) == {actors[i].id : i \in DOMAIN actors}

\* actors.find(a => a.type === 'adversary')?.id, as a set of at most one id
AdversaryId(actors) ==
    LET idx == {i \in DOMAIN actors : actors[i].type = "adversary"}
    IN IF idx = {} THEN {}
       ELSE {actors[CHOOSE i \in idx : \A j \in idx : i <= j].id}

\* the mutant of GenerateEvents: the actors are visited from the last to the
\* first
RECURSIVE GenerateEventsBackwards(_, _, _, _, _, _)
GenerateEventsBackwards(k, actors, sens, weather, draw, ts) ==
    IF k >= Len(actors) * Len(sens) THEN [evs |-> <<>>, draws |-> 0, order |-> <<>>]
    ELSE LET i == Len(actors) - (k \div Len(sens))
             j == (k % Len(sens)) + 1
             r == IF <<i, j>> \in DOMAIN draw THEN draw[<<i, j>>] ELSE Zero
         IN Bind(<<generateSensorEvent(actors[i], sens[j], weather, r, ts),
                   GenerateEventsBackwards(k + 1, actors, sens, weather, draw, ts)>>,
                 LAMBDA p : [evs |-> p[1].ev \o p[2].evs,
                             draws |-> p[1].draws + p[2].draws,
                             order |-> (IF p[1].draws = 1 THEN <<<<"pair", i, j>>>> ELSE <<>>)
                                       \o p[2].order])

\* step 1 of runDetectionLogic: the events of all (actor, sensor) pairs,
\* actor-major; draw[<<i, j>>] is what the PRNG returns for the pair (the
\* domain of draw is the pairs in range, the only ones that call it); order
\* lists the pairs <<"pair", i, j>> that called the PRNG, in the order of
\* their calls
RECURSIVE GenerateEvents(_, _, _, _, _, _)
GenerateEvents(k, actors, sens, weather, draw, ts) ==
    IF k >= Len(actors) * Len(sens) THEN [evs |-> <<>>, draws |-> 0, order |-> <<>>]
    ELSE LET i == (k \div Len(sens)) + 1
             j == (k % Len(sens)) + 1
             r == IF <<i, j>> \in DOMAIN draw THEN draw[<<i, j>>] ELSE Zero
         IN Bind(<<generateSensorEvent(actors[i], sens[j], weather, r, ts),
                   GenerateEvents(k + 1, actors, sens, weather, draw, ts)>>,
                 LAMBDA p : [evs |-> p[1].ev \o p[2].evs,
                             draws |-> p[1].draws + p[2].draws,
                             order |-> (IF p[1].draws = 1 THEN <<<<"pair", i, j>>>> ELSE <<>>)
                                       \o p[2].order])

\* the mutant of InWindow: nothing is pruned
InWindowAlways(e, rule, now) == TRUE

\* now - e.timestamp < rule.params.time_window_s * 1000
InWindow(e, rule, now) == now - e.timestamp < rule.params.time_window_s * 1000

\* (nextState[stateKey] || []): the list read under a key; a non-zero number
\* there has no filter or concat method and the call throws a TypeError
ReadHistory(state, key) ==
    IF key \notin DOMAIN state THEN [threw |-> FALSE, list |-> <<>>]
    ELSE IF state[key].isNum
         THEN [threw |-> state[key].num # 0, list |-> <<>>]
         ELSE [threw |-> FALSE, list |-> state[key].list]

Put(state, key, val) ==
    [k \in DOMAIN state \cup {key} |-> IF k = key THEN val ELSE state[k]]

\* the mutant of NextStateIsInput: nextState = currentState, no copy
NextStateAliased == TRUE

\* const nextState = { ...currentState }: the spread makes a new object, so
\* nextState is not the object the caller passed
NextStateIsInput == FALSE

\* (...).filter(...) returns a new array, so history is not an array the
\* state passed in holds
HistoryIsStoredArray == FALSE

\* nextState[key] = val; acc.input is what the object passed in holds
Assign(acc, key, val) ==
    [acc EXCEPT !.state = Put(@, key, val),
                !.input = IF NextStateIsInput THEN Put(@, key, val) ELSE @]

\* history.push(...): history is the list after the push
PushHistory(acc, key, history) ==
    IF HistoryIsStoredArray /\ key \in DOMAIN acc.input
    THEN [acc EXCEPT !.input = Put(@, key, ListVal(history))]
    ELSE acc

\* the mutant of ConfidenceExceeds: >= in place of >
ConfidenceAtLeast(e, rule) == RatLeq(rule.params.min_confidence, e.confidence)

\* e.confidence > rule.params.min_confidence
ConfidenceExceeds(e, rule) == RatLess(rule.params.min_confidence, e.confidence)

\* case 'high_confidence_sighting'
EvalHighConfidence(rule, acc, newEvents, advId, now) ==
    LET hits == SelectSeq(newEvents,
                    LAMBDA e : e.actorId \in advId /\ ConfidenceExceeds(e, rule))
    IN IF hits # <<>>
       THEN [acc EXCEPT !.alerts = Append(@,
                [id |-> <<"alert-hc", now>>, timestamp |-> now, level |-> "critical",
                 message |-> <<"High confidence sighting", hits[1].sensorId>>,
                 relatedEvents |-> <<hits[1]>>, rule |-> rule.id])]
       ELSE acc

\* the mutant of EvalPersistent: the history is kept when the rule fires
EvalPersistentNoReset(rule, acc, newEvents, advId, now) ==
    LET stateKey == rule.id
        old == ReadHistory(acc.state, stateKey)
    IN IF old.threw THEN [acc EXCEPT !.threw = TRUE]
       ELSE Bind(SelectSeq(old.list, LAMBDA e : InWindow(e, rule, now))
                 \o SelectSeq(newEvents, LAMBDA e : e.actorId \in advId),
                 LAMBDA history :
       IF Len(history) >= rule.params.min_detections
       THEN Assign([PushHistory(acc, stateKey, history) EXCEPT
                !.alerts = Append(@,
                    [id |-> <<"alert-ps", now>>, timestamp |-> now, level |-> "critical",
                     message |-> <<"Persistent presence", "">>,
                     relatedEvents |-> history, rule |-> rule.id])],
                stateKey, ListVal(history))
       ELSE Assign(PushHistory(acc, stateKey, history), stateKey, ListVal(history)))

\* case 'persistent_sighting'
EvalPersistent(rule, acc, newEvents, advId, now) ==
    LET stateKey == rule.id
        old == ReadHistory(acc.state, stateKey)
    IN IF old.threw THEN [acc EXCEPT !.threw = TRUE]
       ELSE Bind(SelectSeq(old.list, LAMBDA e : InWindow(e, rule, now))
                 \o SelectSeq(newEvents, LAMBDA e : e.actorId \in advId),
                 LAMBDA history :
       IF Len(history) >= rule.params.min_detections
       THEN Assign([PushHistory(acc, stateKey, history) EXCEPT
                !.alerts = Append(@,
                    [id |-> <<"alert-ps", now>>, timestamp |-> now, level |-> "critical",
                     message |-> <<"Persistent presence", "">>,
                     relatedEvents |-> history, rule |-> rule.id])],
                stateKey, ListVal(<<>>))
       ELSE Assign(PushHistory(acc, stateKey, history), stateKey, ListVal(history)))

\* the mutant of CooldownOver: now >= in place of now >
CooldownOverAtBoundary(state, cooldownKey, now) ==
    IF cooldownKey \notin DOMAIN state THEN TRUE
    ELSE IF state[cooldownKey].isNum
         THEN state[cooldownKey].num = 0 \/ now >= state[cooldownKey].num
         ELSE state[cooldownKey].list = <<>> /\ now > 0

\* the mutant of CooldownOver: the cooldown is not looked at
CooldownIgnored(state, cooldownKey, now) == TRUE

\* !nextState[cooldownKey] || now > nextState[cooldownKey]; a list stored
\* under the key is truthy and converts to 0 when empty, to NaN otherwise
CooldownOver(state, cooldownKey, now) ==
    IF cooldownKey \notin DOMAIN state THEN TRUE
    ELSE IF state[cooldownKey].isNum
         THEN state[cooldownKey].num = 0 \/ now > state[cooldownKey].num
         ELSE state[cooldownKey].list = <<>> /\ now > 0

\* the ids of nearbyActorIds for one adversary event
NearbyActorIds(advEvent, history, rule) ==
    {advEvent.actorId} \cup
    {history[i].actorId : i \in {i \in DOMAIN history :
        getDistance(advEvent.actorPos, history[i].actorPos) < rule.params.radius_m}}

\* the loop over adversaryEventsThisTick of case 'group_sighting'
RECURSIVE GroupLoop(_, _, _, _, _, _)
GroupLoop(k, advEvents, history, rule, acc, now) ==
    IF k > Len(advEvents) THEN acc
    ELSE LET cooldownKey == rule.id \o "-cooldown"
             Step(nearby) ==
                     IF /\ Cardinality(nearby) >= rule.params.min_actors
                        /\ CooldownOver(acc.state, cooldownKey, now)
                     THEN Assign([acc EXCEPT
                             !.alerts = Append(@,
                                 [id |-> <<"alert-gs", now>>, timestamp |-> now,
                                  level |-> "critical",
                                  message |-> <<"Suspicious group", Cardinality(nearby)>>,
                                  relatedEvents |-> <<>>, rule |-> rule.id])],
                             cooldownKey,
                             NumVal(now + rule.params.time_window_s * 1000))
                     ELSE acc
         IN Bind(Bind(NearbyActorIds(advEvents[k], history, rule), Step),
                 LAMBDA acc2 : GroupLoop(k + 1, advEvents, history, rule, acc2, now))

\* case 'group_sighting'
EvalGroup(rule, acc, newEvents, advId, now) ==
    LET stateKey == rule.id
        old == ReadHistory(acc.state, stateKey)
        adversaryEventsThisTick == SelectSeq(newEvents, LAMBDA e : e.actorId \in advId)
    IN IF old.threw THEN [acc EXCEPT !.threw = TRUE]
       ELSE Bind(SelectSeq(old.list \o newEvents, LAMBDA e : InWindow(e, rule, now)),
                 LAMBDA history :
                    Bind(<<adversaryEventsThisTick,
                           Assign(acc, stateKey, ListVal(history))>>,
                         LAMBDA p : GroupLoop(1, p[1], history, rule, p[2], now)))

\* the mutant of EvalRule: a type without a case is an error
EvalRuleUnknownThrows(rule, acc, newEvents, advId, now) ==
    IF acc.threw THEN acc
    ELSE CASE rule.type = "high_confidence_sighting" ->
                EvalHighConfidence(rule, acc, newEvents, advId, now)
           [] rule.type = "persistent_sighting" ->
                EvalPersistent(rule, acc, newEvents, advId, now)
           [] rule.type = "group_sighting" ->
                EvalGroup(rule, acc, newEvents, advId, now)
           [] OTHER -> [acc EXCEPT !.threw = TRUE]

\* the switch on rule.type; an exception thrown by an earlier rule has ended
\* the forEach
EvalRule(rule, acc, newEvents, advId, now) ==
    IF acc.threw THEN acc
    ELSE CASE rule.type = "high_confidence_sighting" ->
                EvalHighConfidence(rule, acc, newEvents, advId, now)
           [] rule.type = "persistent_sighting" ->
                EvalPersistent(rule, acc, newEvents, advId, now)
           [] rule.type = "group_sighting" ->
                EvalGroup(rule, acc, newEvents, advId, now)
           [] OTHER -> acc

RECURSIVE EvalRules(_, _, _, _, _, _)
EvalRules(k, rs, acc, newEvents, advId, now) ==
    IF k > Len(rs) THEN acc
    ELSE Bind(EvalRule(rs[k], acc, newEvents, advId, now),
              LAMBDA acc2 : EvalRules(k + 1, rs, acc2, newEvents, advId, now))

\* the mutant of runDetectionLogic: the rules are evaluated on no events too
runDetectionLogicNoShortCircuit(actors, sens, weather, draw, rs, currentState, ts, now) ==
    Bind(GenerateEvents(0, actors, sens, weather, draw, ts), LAMBDA gen :
            Bind(EvalRules(1, rs,
                          [alerts |-> <<>>, state |-> currentState, threw |-> FALSE,
                           input |-> currentState],
                          gen.evs, AdversaryId(actors), now),
                 LAMBDA acc :
                    [newAlerts |-> acc.alerts, newEvents |-> gen.evs,
                     updatedState |-> acc.state, draws |-> gen.draws, order |-> gen.order,
                     threw |-> acc.threw, evaluated |-> TRUE,
                     inputAfter |-> acc.input]))

\* runDetectionLogic; ts is the value of Date.now() in generateSensorEvent and
\* now its value at line 349.  The `rule` field of an alert is not in the
\* code: it records which rule pushed the alert.  threw: the call ended in a
\* TypeError and returned nothing.  inputAfter: what the object passed as
\* currentState holds when the call ends.
runDetectionLogic(actors, sens, weather, draw, rs, currentState, ts, now) ==
    Bind(GenerateEvents(0, actors, sens, weather, draw, ts), LAMBDA gen :
       IF gen.evs = <<>>
       THEN [newAlerts |-> <<>>, newEvents |-> <<>>, updatedState |-> currentState,
             draws |-> gen.draws, order |-> gen.order, threw |-> FALSE, evaluated |-> FALSE,
             inputAfter |-> currentState]
       ELSE Bind(EvalRules(1, rs,
                          [alerts |-> <<>>, state |-> currentState, threw |-> FALSE,
                           input |-> currentState],
                          gen.evs, AdversaryId(actors), now),
                 LAMBDA acc :
                    [newAlerts |-> acc.alerts, newEvents |-> gen.evs,
                     updatedState |-> acc.state, draws |-> gen.draws, order |-> gen.order,
                     threw |-> acc.threw, evaluated |-> TRUE,
                     inputAfter |-> acc.input]))

-----------------------------------------------------------------------------
(* Model data: the map, the sensors and the rule sets of the runs.         *)

MaxPathLen == 4        \* longest adversary path explored
CIVILIAN_COUNT == 1    \* civilians per run (10 in the program)
TICK_RATE_MS == 1000

MaxTicks == MaxPathLen + 1

\* values of prng.random(), in [0,1)
RSet == {Rat(0, 100), Rat(99, 100)}

\* Object.keys(POINTS_OF_INTEREST) and the positions
PoiNames == <<"Parking", "Meadow", "PatrolPost">>
POINTS_OF_INTEREST == [Parking |-> 0, Meadow |-> 300, PatrolPost |-> 100]

\* waypoints a planned path may pass between its two ends
Waypoints == {100}

Fog(x, y) == [fog |-> Rat(x, y)]
SCENARIOS == <<
    [sensors |-> <<
        [id |-> "S01", pos |-> 100, range |-> 150, base_p |-> Rat(80, 100),
         weather_penalty |-> Fog(4, 10)],
        [id |-> "S02", pos |-> 400, range |-> 120, base_p |-> Rat(75, 100),
         weather_penalty |-> Fog(3, 10)]>>],
    [sensors |-> <<
        [id |-> "S11", pos |-> 250, range |-> 160, base_p |-> Rat(85, 100),
         weather_penalty |-> Fog(4, 10)]>>]
  >>

HighConfidence(id, x, y) ==
    [id |-> id, type |-> "high_confidence_sighting",
     params |-> [min_confidence |-> Rat(x, y)]]
Persistent(id, w, k) ==
    [id |-> id, type |-> "persistent_sighting",
     params |-> [time_window_s |-> w, min_detections |-> k]]
Group(id, rad, w, k) ==
    [id |-> id, type |-> "group_sighting",
     params |-> [radius_m |-> rad, time_window_s |-> w, min_actors |-> k]]

\* rule sets passed to runSimulationPromise: the shipped rule, a more
\* sensitive one, the two stateful rules, and a pair of rules of which the
\* second keeps its history under the cooldown key of the first (its
\* evaluation then throws a TypeError)
RuleSets == {
    <<HighConfidence("high_confidence_sighting_v1", 85, 100)>>,
    <<HighConfidence("hc_low", 1, 2)>>,
    <<Persistent("persistent_sighting_v1", 2, 2), Group("group_sighting_v1", 100, 2, 2)>>,
    <<Group("g", 100, 2, 1), Persistent("g-cooldown", 2, 3)>>
  }

\* delay between two interval callbacks: the timer fires on its nominal period
TickDelays == {TICK_RATE_MS}

-----------------------------------------------------------------------------
(* Orchestrator.                                                           *)

\* Math.floor(prng.random() * poiNames.length)
FloorMul(r, len) == (r.n * len) \div r.d

\* getRandomPoiName(prng, exclude) for the draw r
getRandomPoiName(r, exclude) ==
    LET poiNames == SelectSeq(PoiNames, LAMBDA nm : nm \notin exclude)
    IN poiNames[FloorMul(r, Len(poiNames)) + 1]

PoiPos(name) == POINTS_OF_INTEREST[name]

\* a civilian of handleStartScenario, from its two draws
MakeCivilian(i, r1, r2) ==
    LET startPoi == getRandomPoiName(r1, {})
        endPoi == getRandomPoiName(r2, {startPoi})
    IN [id |-> <<"civ", i>>, type |-> "civilian", pos |-> PoiPos(startPoi),
        path |-> <<PoiPos(startPoi), PoiPos(endPoi)>>, pathIndex |-> 0]

\* the adversary of handleStartScenario, from the planned path
MakeAdversary(path) ==
    [id |-> <<"adv", 1>>, type |-> "adversary", pos |-> path[1],
     path |-> path, pathIndex |-> 0]

\* the paths generateAdversarialScenario returns: never empty, ends forced to
\* the two POIs (a one-point path holds the end POI only)
RECURSIVE SeqsOf(_, _)
SeqsOf(S, n) == IF n = 0 THEN {<<>>}
                ELSE {Append(q, x) : q \in SeqsOf(S, n - 1), x \in S}
AdversaryPaths ==
    {<<PoiPos("Meadow")>>} \cup
    UNION {{<<PoiPos("Parking")>> \o mid \o <<PoiPos("Meadow")>> : mid \in SeqsOf(Waypoints, n)}
           : n \in 0..(MaxPathLen - 2)}

\* actor.pathIndex >= actor.path.length - 1 (pathIndex counts from 0)
AtPathEnd(actor) == actor.pathIndex >= Len(actor.path) - 1

\* the mutant of AdvanceActor: the civilian restarts at the POI it is sent to
AdvanceActorJump(actor, r) ==
    IF AtPathEnd(actor)
    THEN IF actor.type = "civilian"
         THEN [actor EXCEPT !.path = <<PoiPos(getRandomPoiName(r, {})), actor.pos>>,
                            !.pathIndex = 0]
         ELSE actor
    ELSE [actor EXCEPT !.pathIndex = actor.pathIndex + 1,
                       !.pos = actor.path[actor.pathIndex + 2]]

\* the mutant of AdvanceActor: the position is not updated
AdvanceActorStale(actor, r) ==
    IF AtPathEnd(actor)
    THEN IF actor.type = "civilian"
         THEN [actor EXCEPT !.path = <<actor.pos, PoiPos(getRandomPoiName(r, {}))>>,
                            !.pathIndex = 0]
         ELSE actor
    ELSE [actor EXCEPT !.pathIndex = actor.pathIndex + 1]

\* the mutant of AdvanceActor: a step skips a waypoint where it can
AdvanceActorSkip(actor, r) ==
    IF AtPathEnd(actor)
    THEN IF actor.type = "civilian"
         THEN [actor EXCEPT !.path = <<actor.pos, PoiPos(getRandomPoiName(r, {}))>>,
                            !.pathIndex = 0]
         ELSE actor
    ELSE LET newPathIndex == IF actor.pathIndex + 2 <= Len(actor.path) - 1
                             THEN actor.pathIndex + 2 ELSE actor.pathIndex + 1
         IN [actor EXCEPT !.pathIndex = newPathIndex,
                          !.pos = actor.path[newPathIndex + 1]]

\* the body of currentActors.map; r is the draw of getRandomPoiName
AdvanceActor(actor, r) ==
    IF AtPathEnd(actor)
    THEN IF actor.type = "civilian"
         THEN [actor EXCEPT !.path = <<actor.pos, PoiPos(getRandomPoiName(r, {}))>>,
                            !.pathIndex = 0]
         ELSE actor
    ELSE [actor EXCEPT !.pathIndex = actor.pathIndex + 1,
                       !.pos = actor.path[actor.pathIndex + 2]]

\* the civilians the advance step gives a new path: one draw each
Repathed(actors) ==
    {i \in DOMAIN actors : AtPathEnd(actors[i]) /\ actors[i].type = "civilian"}

\* the pairs generateSensorEvent draws for
InRangePairs(actors, sens) ==
    {p \in (DOMAIN actors) \X (DOMAIN sens) : InRange(actors[p[1]], sens[p[2]])}

\* the mutant of AdversaryDone: the check fires one waypoint late
AdversaryDoneLate(actors) ==
    LET idx == {i \in DOMAIN actors : actors[i].type = "adversary"}
    IN \/ idx = {}
       \/ LET adversary == actors[CHOOSE i \in idx : \A j \in idx : i <= j]
          IN adversary.pathIndex > Len(adversary.path) - 1

\* the mutant of AdversaryDone: only a missing adversary ends the run
AdversaryDoneMissing(actors) ==
    {i \in DOMAIN actors : actors[i].type = "adversary"} = {}

\* !adversary || adversary.pathIndex >= adversary.path.length - 1
AdversaryDone(actors) ==
    LET idx == {i \in DOMAIN actors : actors[i].type = "adversary"}
    IN \/ idx = {}
       \/ AtPathEnd(actors[CHOOSE i \in idx : \A j \in idx : i <= j])

\* the mutant of HasCritical: any alert ends the run, none needed
HasCriticalAlways(alerts) == TRUE

\* newAlerts.length > 0 && newAlerts.some(a => a.level === 'critical')
HasCritical(alerts) == \E i \in DOMAIN alerts : alerts[i].level = "critical"

\* the mutant of Resolve: the promise is left pending
ResolveDropped(outcome) == <<>>

\* resolve(outcome): the calls of resolve the callback makes
Resolve(outcome) == <<outcome>>

\* the mutant of IntervalAfterClear: clearInterval forgotten
IntervalNotCleared(active) == active

\* clearInterval(interval)
IntervalAfterClear(active) == FALSE

NoTick == [n |-> 0, bypass |-> FALSE, detectionRan |-> FALSE, evaluated |-> FALSE,
           threw |-> FALSE, poiDraws |-> 0, detDraws |-> 0, drawOrder |-> <<>>,
           newAlerts |-> <<>>, newEvents |-> <<>>,
           actorsBefore |-> <<>>, stateBefore |-> <<>>, updatedState |-> <<>>]

EmptyState == [k \in {} |-> ListVal(<<>>)]

\* the mutant of FreshEvents: the events of the run before stay
FreshEventsKept(prev) == prev

\* setEvents([])
FreshEvents(prev) == <<>>

\* the mutant of FreshState: the rolling state of the run before is reused
FreshStateKept(prev) == prev

\* let detectionState = {}
FreshState(prev) == EmptyState

\* runSimulationPromise(initialActors, sensors, rules, prng) up to setInterval
BeginRun(initialActors, sens, rs) ==
    /\ currentActors' = initialActors
    /\ sensors' = sens
    /\ rules' = rs
    /\ runStarted' = TRUE
    /\ intervalActive' = TRUE
    /\ resolved' = <<>>
    /\ detectionState' = FreshState(detectionState)
    /\ events' = FreshEvents(events)

\* runSimulationPromise up to setInterval, called by handleStartScenario with
\* the actors it has created
StartRun ==
    /\ ~runStarted
    /\ \E path \in AdversaryPaths, sc \in DOMAIN SCENARIOS, rs \in RuleSets,
          civDraw \in [1..CIVILIAN_COUNT -> RSet \X RSet] :
        BeginRun(<<MakeAdversary(path)>> \o
                 [i \in 1..CIVILIAN_COUNT |->
                     MakeCivilian(i - 1, civDraw[i][1], civDraw[i][2])],
                 SCENARIOS[sc].sensors, rs)
    /\ prngCalls' = prngCalls + 2 * CIVILIAN_COUNT
    /\ UNCHANGED <<clock, tickCount, lastTick, detVars, ruleVars, prngVars, sessVars>>

\* currentActors.map(actor => ...) from element k on: the actors it returns
\* and the civilians that called getRandomPoiName, in the order of the calls
RECURSIVE AdvanceAll(_, _, _)
AdvanceAll(k, actors, poiDraw) ==
    IF k > Len(actors) THEN [actors |-> <<>>, order |-> <<>>]
    ELSE Bind(AdvanceAll(k + 1, actors, poiDraw), LAMBDA rest :
            [actors |-> <<AdvanceActor(actors[k],
                                       IF k \in DOMAIN poiDraw THEN poiDraw[k] ELSE Zero)>>
                        \o rest.actors,
             order |-> (IF AtPathEnd(actors[k]) /\ actors[k].type = "civilian"
                        THEN <<<<"poi", k, 0>>>> ELSE <<>>) \o rest.order])

\* what one interval callback does from (actors, state): the values it leaves
\* in currentActors, detectionState and the timer, the events it hands to
\* setEvents, the verdicts it passes to resolve, and what lastTick records
TickResult(actors, state, active, sens, rs, n, poiDraw, draw, now) ==
    Bind(AdvanceAll(1, actors, poiDraw), LAMBDA adv :
    LET advanced == adv.actors
        nPoi == Len(adv.order)
        base == [NoTick EXCEPT !.n = n, !.poiDraws = nPoi,
                               !.drawOrder = adv.order,
                               !.actorsBefore = actors,
                               !.stateBefore = state,
                               !.updatedState = state]
        out == [actors |-> advanced, state |-> state, active |-> active,
                setEvents |-> <<>>, resolves |-> <<>>, draws |-> nPoi, seen |-> base]
    IN IF AdversaryDone(advanced)
       THEN [out EXCEPT !.active = IntervalAfterClear(active),
                        !.resolves = Resolve("BYPASSED"),
                        !.seen = [base EXCEPT !.bypass = TRUE]]
       ELSE Bind(runDetectionLogic(advanced, sens, "clear", draw, rs, state, now, now),
                 LAMBDA det :
            LET seen == [base EXCEPT !.detectionRan = TRUE,
                                     !.evaluated = det.evaluated,
                                     !.threw = det.threw,
                                     !.detDraws = det.draws,
                                     !.drawOrder = adv.order \o det.order,
                                     !.newEvents = det.newEvents]
            IN IF det.threw
               THEN [out EXCEPT !.draws = nPoi + det.draws, !.seen = seen]
               ELSE [out EXCEPT
                       !.draws = nPoi + det.draws,
                       !.state = det.updatedState,
                       !.setEvents = det.newEvents,
                       !.seen = [seen EXCEPT !.newAlerts = det.newAlerts,
                                             !.updatedState = det.updatedState],
                       !.active = IF HasCritical(det.newAlerts)
                                  THEN IntervalAfterClear(active) ELSE active,
                       !.resolves = IF HasCritical(det.newAlerts)
                                    THEN Resolve("DETECTED") ELSE <<>>]))

\* the draws a callback makes for the detection step (none when the run ends
\* BYPASSED before it)
DetectionPairs(actors, poiDraw, sens) ==
    LET advanced == [i \in DOMAIN actors |->
                        AdvanceActor(actors[i],
                            IF i \in DOMAIN poiDraw THEN poiDraw[i] ELSE Zero)]
    IN IF AdversaryDone(advanced) THEN {} ELSE InRangePairs(advanced, sens)

\* one interval callback.  MaxTicks keeps the state space finite should a run
\* never end; no run of the model reaches it (a run that did would stay
\* RUNNING for ever and break C2_RunTerminates)
Tick ==
    /\ runStarted
    /\ intervalActive
    /\ tickCount < MaxTicks
    /\ \E dt \in TickDelays,
          poiDraw \in [Repathed(currentActors) -> RSet] :
       \E draw \in [DetectionPairs(currentActors, poiDraw, sensors) -> RSet] :
       \E res \in {TickResult(currentActors, detectionState, intervalActive, sensors,
                              rules, tickCount + 1, poiDraw, draw, clock + dt)} :
           /\ clock' = clock + dt
           /\ tickCount' = tickCount + 1
           /\ currentActors' = res.actors
           /\ detectionState' = res.state
           /\ intervalActive' = res.active
           /\ events' = events \o res.setEvents
           /\ resolved' = resolved \o res.resolves
           /\ prngCalls' = prngCalls + res.draws
           /\ lastTick' = res.seen
    /\ UNCHANGED <<runStarted, sensors, rules, detVars, ruleVars, prngVars, sessVars>>

NoCall == [called |-> FALSE]

\* no PRNG object constructed yet
NoPRNGs == [made |-> FALSE]

\* no interval of a closed view
NoOrphan == [active |-> FALSE, actors |-> <<>>, state |-> <<>>, sensors |-> <<>>,
             rules |-> <<>>, n |-> 0, ticksAfterClose |-> 0]

\* no patch generated
NoPatch == [hasRule |-> FALSE, explanation |-> "none"]

\* the component is not mounted.  opens and starts count the times the view
\* was opened and handleStartScenario was called; orphan is the interval a
\* closed view has left behind
NoSession == [mounted |-> FALSE, opens |-> 0, starts |-> 0, pc |-> "idle",
              isRunning |-> FALSE, scenarioIndex |-> 0, activeRules |-> <<>>,
              simulationVerdict |-> "null", currentRules |-> <<>>,
              civilians |-> <<>>, planned |-> "none", patchReply |-> "none",
              generatedPatch |-> NoPatch, failed |-> FALSE, orphan |-> NoOrphan]

\* no call of runDetectionLogic made yet
NoCalls == [n |-> 0]

Init ==
    /\ runStarted = FALSE
    /\ intervalActive = FALSE
    /\ resolved = <<>>
    /\ currentActors = <<>>
    /\ detectionState = EmptyState
    /\ sensors = <<>>
    /\ rules = <<>>
    /\ events = <<>>
    /\ clock = 0
    /\ prngCalls = 0
    /\ tickCount = 0
    /\ lastTick = NoTick
    /\ gsIn = NoCall
    /\ gsOut = NoCall
    /\ gsPrev = NoCall
    /\ rdl = NoCalls
    /\ prngs = NoPRNGs
    /\ session = NoSession

Next == StartRun \/ Tick

Spec == Init /\ [][Next]_vars

\* the interval timer keeps firing
FairSpec == Spec /\ WF_vars(Tick)

\* the state of the run
Status ==
    IF ~runStarted THEN "IDLE"
    ELSE IF resolved = <<>> THEN "RUNNING" ELSE resolved[1]

-----------------------------------------------------------------------------
(* generateSensorEvent on its own: calls with arguments drawn from the      *)
(* sets below, the second action repeating a call at another distance.     *)

DetectPenalties ==
    {[w \in {} |-> Zero]} \cup {[fog |-> q] : q \in {Rat(0, 1), Rat(4, 10), Rat(1, 1)}}
DetectSensors ==
    {[id |-> "S01", pos |-> 0, range |-> rg, base_p |-> bp, weather_penalty |-> wp] :
        rg \in {0, 150}, bp \in {Rat(0, 1), Rat(80, 100), Rat(1, 1)},
        wp \in DetectPenalties}
DetectPositions == {0, 75, 149, 150, 151, 200}
DetectDraws == {Rat(0, 100), Rat(39, 100), Rat(40, 100), Rat(99, 100)}
DetectActor(type, pos) ==
    [id |-> <<type, 1>>, type |-> type, pos |-> pos, path |-> <<pos>>, pathIndex |-> 0]

Call(actor, sensor, weather, r) ==
    /\ gsIn' = [called |-> TRUE, actor |-> actor, sensor |-> sensor,
                weather |-> weather, r |-> r]
    /\ gsOut' = [called |-> TRUE] @@ generateSensorEvent(actor, sensor, weather, r, clock)

\* the first call of generateSensorEvent
CallDetect ==
    /\ ~gsIn.called
    /\ \E type \in {"adversary", "civilian"}, pos \in DetectPositions,
          sensor \in DetectSensors, weather \in {"clear", "fog"}, r \in DetectDraws :
          Call(DetectActor(type, pos), sensor, weather, r)
    /\ gsPrev' = NoCall
    /\ UNCHANGED <<orchVars, ruleVars, prngVars, sessVars>>

\* the same sensor, weather and actor, the actor at another position
CallAgain ==
    /\ gsIn.called
    /\ \E pos \in DetectPositions, r \in DetectDraws :
          /\ pos # gsIn.actor.pos
          /\ Call([gsIn.actor EXCEPT !.pos = pos, !.path = <<pos>>],
                  gsIn.sensor, gsIn.weather, r)
    /\ gsPrev' = [called |-> TRUE, actor |-> gsIn.actor, prob |-> gsOut.prob,
                  computed |-> gsOut.computed]
    /\ UNCHANGED <<orchVars, ruleVars, prngVars, sessVars>>

NextDetect == CallDetect \/ CallAgain

SpecDetect == Init /\ [][NextDetect]_vars

\* the distance of the last call
CallDistance == getDistance(gsIn.actor.pos, gsIn.sensor.pos)

-----------------------------------------------------------------------------
(* runDetectionLogic on its own: a caller that, like the tick loop, passes  *)
(* the state one call returned to the next call, with the clock advancing  *)
(* between calls.  A second execution of the same calls, started at        *)
(* another moment, runs alongside.                                         *)

MaxCalls == 4          \* calls of runDetectionLogic in one sequence

\* one sensor at position 0 with an empty weather_penalty: the adversary's
\* confidence at distance d is (86 - d) / 100, a civilian's is above 1
RuleSensors ==
    <<[id |-> "R01", pos |-> 0, range |-> 86, base_p |-> Rat(43, 40),
       weather_penalty |-> [w \in {} |-> Zero]]>>

\* a rule of a type the switch has no case for
Unknown(id) == [id |-> id, type |-> "zone_breach", params |-> [k \in {} |-> 0]]

RuleSetsDirect == {
    <<HighConfidence("hc", 85, 100)>>,
    <<HighConfidence("hc_eq", 84, 100)>>,
    <<Persistent("ps", 2, 2)>>,
    <<Persistent("ps3", 3, 3)>>,
    <<Persistent("ps0", 0, 2)>>,
    <<Group("gs", 2, 2, 2)>>,
    <<Group("gs1", 2, 2, 1)>>,
    <<Persistent("ps", 2, 2), Unknown("zb"), HighConfidence("hc", 85, 100)>>
  }

\* positions of the adversary and of the civilian (200 is out of range)
AdversaryPositions == {0, 2}
CivilianPositions == {0, 200}
\* time between two calls, and the moment the second execution starts after
\* the first
CallDelays == {1000, 2000}
ClockSkews == {7}

DirectActors(advPos, civPos) ==
    <<[id |-> <<"adv", 1>>, type |-> "adversary", pos |-> advPos,
       path |-> <<advPos>>, pathIndex |-> 0],
      [id |-> <<"civ", 0>>, type |-> "civilian", pos |-> civPos,
       path |-> <<civPos>>, pathIndex |-> 0]>>

\* the ids of the rules that pushed an alert
AlertedRules(alerts) == {alerts[i].rule : i \in DOMAIN alerts}
AlertsOf(alerts, id) == SelectSeq(alerts, LAMBDA a : a.rule = id)

\* the caller chooses the rules and the sensors of the sequence
Configure ==
    /\ ~runStarted
    /\ rules = <<>>
    /\ rdl.n = 0
    /\ \E rs \in RuleSetsDirect, skew \in ClockSkews :
        /\ rules' = rs
        /\ rdl' = [n |-> 0, skew |-> skew, state2 |-> EmptyState,
                   streak |-> 0, streakFirst |-> 0, fresh |-> TRUE,
                   afterAlert |-> FALSE,
                   fired |-> [id \in {} |-> 0]]
    /\ sensors' = RuleSensors
    /\ detectionState' = EmptyState
    /\ UNCHANGED <<runStarted, intervalActive, resolved, currentActors, events,
                   clock, prngCalls, tickCount, lastTick, detVars, prngVars, sessVars>>

\* what the record of a call holds: the arguments, the results of the two
\* executions, and what the sequence so far has been (streak: the calls in a
\* row, since the empty state or since an alert of a persistent rule, that
\* each fed one adversary event, the first of them at streakFirst; fresh: the
\* call ended with an alert of a persistent rule, afterAlert: the call before
\* did; fired: when each rule last pushed an alert)
CallRecord(prev, actors, draw, now, state, out, out2) ==
    LET advEvents == SelectSeq(out.newEvents,
                        LAMBDA e : e.actorId \in AdversaryId(actors))
        run == Len(advEvents) = 1 /\ (prev.fresh \/ prev.streak > 0)
        alerted == AlertedRules(out.newAlerts)
    IN [n |-> prev.n + 1, skew |-> prev.skew,
        actors |-> actors, draw |-> draw, now |-> now,
        stateBefore |-> state, out |-> out,
        state2Before |-> prev.state2, out2 |-> out2,
        state2 |-> IF out2.threw THEN prev.state2 ELSE out2.updatedState,
        streak |-> IF run THEN (IF prev.fresh THEN 1 ELSE prev.streak + 1) ELSE 0,
        streakFirst |-> IF run /\ ~prev.fresh THEN prev.streakFirst ELSE now,
        fresh |-> \E i \in DOMAIN out.newAlerts :
                     out.newAlerts[i].id[1] = "alert-ps",
        afterAlert |-> prev.n > 0 /\ prev.fresh,
        firedBefore |-> prev.fired,
        fired |-> [id \in DOMAIN prev.fired \cup alerted |->
                      IF id \in alerted THEN now ELSE prev.fired[id]]]

\* one call of runDetectionLogic(actors, sensors, 'clear', prng, rules, state)
CallRules ==
    /\ ~runStarted
    /\ rules # <<>>
    /\ rdl.n < MaxCalls
    /\ \E advPos \in AdversaryPositions, civPos \in CivilianPositions,
          r \in RSet, dt \in CallDelays :
       \E actors \in {DirectActors(advPos, civPos)} :
       \E draw \in {[p \in InRangePairs(actors, sensors) |->
                        IF p[1] = 1 THEN r ELSE Zero]} :
       \* a draw that gives no adversary event: one position is enough
       \E go \in {g \in {TRUE} : r # Zero => advPos = 0} :
       \E out \in {runDetectionLogic(actors, sensors, "clear", draw, rules,
                                     detectionState, clock + dt, clock + dt)},
          out2 \in {runDetectionLogic(actors, sensors, "clear", draw, rules,
                                      rdl.state2, clock + dt + rdl.skew,
                                      clock + dt + rdl.skew)} :
           /\ clock' = clock + dt
           /\ currentActors' = actors
           /\ prngCalls' = prngCalls + out.draws
           /\ detectionState' = IF out.threw THEN detectionState ELSE out.updatedState
           /\ rdl' = CallRecord(rdl, actors, draw, clock + dt, detectionState, out, out2)
    /\ UNCHANGED <<runStarted, intervalActive, resolved, sensors, rules, events,
                   tickCount, lastTick, detVars, prngVars, sessVars>>

NextRules == Configure \/ CallRules

SpecRules == Init /\ [][NextRules]_vars

-----------------------------------------------------------------------------
(* Claims about generateSensorEvent (SpecDetect).                          *)

\* C7: for an actor-sensor pair whose distance is greater than sensor.range,
\* generateSensorEvent returns no event and makes no PRNG draw.
C7_OutOfRangeNoEventNoDraw ==
    (gsIn.called /\ CallDistance > gsIn.sensor.range)
        => (gsOut.ev = <<>> /\ gsOut.draws = 0)

C7_Witness ==
    /\ gsIn.called /\ CallDistance > gsIn.sensor.range
    /\ gsIn.sensor.range > 0 /\ gsIn.sensor.base_p = One /\ gsIn.r = Zero

\* the probability the specification states: base_p, times the penalty when
\* the sensor has an entry for the weather, times the falloff, times 0.8 for
\* the adversary
StatedProb(actor, sensor, weather) ==
    LET a == IF weather \in DOMAIN sensor.weather_penalty
             THEN RatMul(sensor.base_p, sensor.weather_penalty[weather])
             ELSE sensor.base_p
        b == RatMul(a, RatOneMinus(Rat(getDistance(actor.pos, sensor.pos), sensor.range)))
    IN IF actor.type = "adversary" THEN RatMul(b, Rat(8, 10)) ELSE b

\* C8: for an in-range pair an event is emitted iff r < prob, prob being
\* base_p x (penalty, if any) x (1 - distance/range) x (0.8 for the adversary),
\* and the event's confidence is prob; range 150, base_p 0.8, distance 75,
\* clear weather, civilian: prob is 0.4.
C8_ProbAndEmission ==
    (gsIn.called /\ CallDistance <= gsIn.sensor.range) =>
        LET prob == StatedProb(gsIn.actor, gsIn.sensor, gsIn.weather)
        IN /\ (gsOut.ev # <<>>) <=> RatLess(gsIn.r, prob)
           /\ gsOut.ev # <<>> => gsOut.ev[1].confidence = prob
           /\ ( /\ gsIn.sensor.range = 150 /\ gsIn.sensor.base_p = Rat(80, 100)
                /\ CallDistance = 75 /\ gsIn.weather = "clear"
                /\ gsIn.actor.type = "civilian" ) => gsOut.prob = Rat(4, 10)

\* C9: whenever the sensor has a penalty entry for the active weather the
\* probability is multiplied by it, for every entry in [0,1], 0 included (with
\* an entry of 0 the sensor emits no event).
C9_PenaltyAlwaysMultiplies ==
    ( /\ gsIn.called /\ CallDistance <= gsIn.sensor.range /\ gsIn.sensor.range > 0
      /\ gsIn.weather \in DOMAIN gsIn.sensor.weather_penalty ) =>
        /\ gsOut.prob = StatedProb(gsIn.actor, gsIn.sensor, gsIn.weather)
        /\ gsIn.sensor.weather_penalty[gsIn.weather] = Zero => gsOut.ev = <<>>

\* the two calls compared by C10: same sensor, weather and actor type, the
\* earlier call nearer to the sensor, both in range
C10_Compared ==
    /\ gsIn.called /\ gsPrev.called
    /\ RatLess(Zero, gsIn.sensor.base_p)
    /\ getDistance(gsPrev.actor.pos, gsIn.sensor.pos) < CallDistance
    /\ CallDistance <= gsIn.sensor.range

-----------------------------------------------------------------------------
(* Claims about runSimulationPromise (Spec, FairSpec).                     *)

\* the adversary of the run and whether it stands on its last waypoint
TheAdversary(actors) ==
    actors[CHOOSE i \in DOMAIN actors : actors[i].type = "adversary"]
AdversaryOnLastWaypoint(actors) ==
    TheAdversary(actors).pathIndex = Len(TheAdversary(actors).path) - 1
CriticalIn(alerts) == {i \in DOMAIN alerts : alerts[i].level = "critical"}

\* C1: a run resolves to exactly one verdict: once it has resolved, its
\* interval is cleared, no later tick of the run executes, and resolve is
\* never called with the other verdict (or a second time at all).
C1_ExactlyOneVerdict ==
    /\ [](resolved # <<>> =>
            /\ Len(resolved) = 1
            /\ resolved[1] \in {"DETECTED", "BYPASSED"}
            /\ ~intervalActive)
    /\ [][resolved # <<>> =>
            UNCHANGED <<resolved, tickCount, currentActors, detectionState, events>>]_vars

C1_Witness == resolved = <<"DETECTED">> /\ ~intervalActive /\ tickCount = 2

\* C2: with the interval timer firing, a started run eventually resolves to
\* DETECTED or BYPASSED, whatever the (non-empty) path and the rule set.
C2_RunTerminates ==
    runStarted ~> (resolved # <<>> /\ resolved[1] \in {"DETECTED", "BYPASSED"})

C2_Witness ==
    /\ resolved = <<"BYPASSED">> /\ tickCount = MaxPathLen - 1
    /\ Len(TheAdversary(currentActors).path) = MaxPathLen

\* C3: in the tick after whose advance the adversary stands on the last
\* waypoint of its path, the run ends BYPASSED and the tick performs no sensor
\* detection, no detection draw and no rule evaluation, so it cannot end
\* DETECTED.
C3_BypassBeforeDetection ==
    (lastTick.n > 0 /\ lastTick.n = tickCount /\ AdversaryOnLastWaypoint(currentActors)) =>
        /\ lastTick.bypass
        /\ resolved = <<"BYPASSED">>
        /\ ~lastTick.detectionRan /\ ~lastTick.evaluated
        /\ lastTick.detDraws = 0
        /\ lastTick.newEvents = <<>> /\ lastTick.newAlerts = <<>>
        /\ detectionState = lastTick.stateBefore

\* the adversary walks into the range of S01 with its last step
C3_Witness ==
    /\ lastTick.bypass /\ tickCount = 3
    /\ \E j \in DOMAIN sensors : InRange(TheAdversary(currentActors), sensors[j])
    /\ \E k \in DOMAIN rules : rules[k].id = "hc_low"

\* what the rule engine returns for the events of the last tick and the state
\* carried into it
ExpectedEval ==
    EvalRules(1, rules,
              [alerts |-> <<>>, state |-> lastTick.stateBefore, threw |-> FALSE,
               input |-> lastTick.stateBefore],
              lastTick.newEvents, AdversaryId(currentActors), clock)

\* C4: a tick that does not end BYPASSED ends the run DETECTED iff one of the
\* alerts runDetectionLogic returned in it is critical; otherwise the run stays
\* RUNNING and the state the rule engine returned is the carried state.  (A
\* call that throws returns neither alerts nor a state: the carried state
\* stays.)
C4_DetectedIffCritical ==
    (lastTick.n > 0 /\ ~lastTick.bypass) =>
        /\ (resolved = <<"DETECTED">>) <=> (CriticalIn(lastTick.newAlerts) # {})
        /\ CriticalIn(lastTick.newAlerts) = {} => (resolved = <<>> /\ intervalActive)
        /\ lastTick.newEvents = <<>> =>
              (lastTick.newAlerts = <<>> /\ detectionState = lastTick.stateBefore)
        /\ lastTick.newEvents # <<>> =>
              IF ExpectedEval.threw
              THEN lastTick.newAlerts = <<>> /\ detectionState = lastTick.stateBefore
              ELSE /\ lastTick.newAlerts = ExpectedEval.alerts
                   /\ detectionState = ExpectedEval.state

\* a tick that sensed the adversary, raised no alert and left the sighting in
\* the carried state, after an earlier tick that had done the same
C4_Witness ==
    /\ lastTick.n = 2 /\ ~lastTick.bypass /\ resolved = <<>>
    /\ lastTick.newEvents # <<>>
    /\ "persistent_sighting_v1" \in DOMAIN detectionState
    /\ "persistent_sighting_v1" \in DOMAIN lastTick.stateBefore
    /\ Len(detectionState["persistent_sighting_v1"].list) = 1
    /\ Len(lastTick.stateBefore["persistent_sighting_v1"].list) = 1
    /\ detectionState # lastTick.stateBefore

\* C5: for every actor, after every tick's advance and right after a civilian
\* is given a new path, 0 <= pathIndex < path.length and pos = path[pathIndex].
C5_PathIndexValid ==
    \A i \in DOMAIN currentActors :
        LET a == currentActors[i]
        IN /\ 0 <= a.pathIndex /\ a.pathIndex < Len(a.path)
           /\ a.pos = a.path[a.pathIndex + 1]

C5_Witness ==
    /\ tickCount = 2 /\ lastTick.poiDraws > 0 /\ resolved = <<>>
    /\ \E i \in DOMAIN currentActors :
          currentActors[i].type = "civilian" /\ currentActors[i].pathIndex = 0

PoiPositions == {POINTS_OF_INTEREST[nm] : nm \in DOMAIN POINTS_OF_INTEREST}

\* C6: a civilian on the last index of its path at the start of a tick gets a
\* two-point path from its position to a point of interest, with pathIndex 0;
\* every other civilian moves one waypoint on; and a tick ends the run only
\* with the adversary on its last waypoint or an alert over an adversary
\* sighting, never because of a civilian.
C6_CiviliansWander ==
    (lastTick.n > 0 /\ lastTick.n = tickCount) =>
        /\ \A i \in DOMAIN currentActors :
             LET before == lastTick.actorsBefore[i]
                 after == currentActors[i]
             IN before.type = "civilian" =>
                  IF before.pathIndex = Len(before.path) - 1
                  THEN /\ Len(after.path) = 2
                       /\ after.path[1] = before.pos
                       /\ after.path[2] \in PoiPositions
                       /\ after.pathIndex = 0
                       /\ after.pos = before.pos
                  ELSE /\ after.path = before.path
                       /\ after.pathIndex = before.pathIndex + 1
                       /\ after.pos = before.path[before.pathIndex + 2]
        /\ resolved = <<"BYPASSED">> => AdversaryOnLastWaypoint(currentActors)
        /\ resolved = <<"DETECTED">> =>
              \E k \in DOMAIN lastTick.newEvents :
                  lastTick.newEvents[k].actorId = TheAdversary(currentActors).id
        /\ resolved = <<>> => intervalActive

\* the run goes on after a tick that has sent a civilian on to a new
\* destination
C6_Witness ==
    /\ tickCount = 2 /\ lastTick.poiDraws > 0 /\ resolved = <<>> /\ intervalActive
    /\ \E i \in DOMAIN currentActors :
          /\ currentActors[i].type = "civilian"
          /\ lastTick.actorsBefore[i].pathIndex = 1
          /\ currentActors[i].path[2] # currentActors[i].path[1]

-----------------------------------------------------------------------------
(* Claims about runDetectionLogic (SpecRules).                             *)

\* the rules of a type in the rule set, and the last call's events of the
\* adversary
RulesOfType(type) == {i \in DOMAIN rules : rules[i].type = type}
AdversaryEvents ==
    SelectSeq(rdl.out.newEvents, LAMBDA e : e.actorId = <<"adv", 1>>)
CivilianEvents ==
    SelectSeq(rdl.out.newEvents, LAMBDA e : e.actorId # <<"adv", 1>>)

\* C11: a high_confidence_sighting rule emits a critical alert in a call iff
\* some event of the call belongs to the adversary and has a confidence
\* strictly greater than min_confidence; an adversary event at or below
\* min_confidence and a civilian event of any confidence give no alert.
C11_HighConfidenceIff ==
    rdl.n > 0 =>
      \A k \in RulesOfType("high_confidence_sighting") :
        LET m == rules[k].params.min_confidence
            alerts == AlertsOf(rdl.out.newAlerts, rules[k].id)
            above == {i \in DOMAIN AdversaryEvents :
                        AdversaryEvents[i].confidence.n * m.d
                            > m.n * AdversaryEvents[i].confidence.d}
        IN /\ (alerts # <<>>) <=> (above # {})
           /\ Len(alerts) <= 1
           /\ \A i \in DOMAIN alerts : alerts[i].level = "critical"

\* min_confidence 0.85 and an adversary event of confidence 0.86: an alert,
\* with a civilian event in the same call
C11_Witness ==
    /\ rdl.n > 0
    /\ rules = <<HighConfidence("hc", 85, 100)>>
    /\ \E i \in DOMAIN AdversaryEvents : AdversaryEvents[i].confidence = Rat(86, 100)
    /\ CivilianEvents # <<>>
    /\ Len(rdl.out.newAlerts) = 1
    /\ rdl.out.newAlerts[1].level = "critical"

\* C12: a persistent_sighting rule with min_detections = n >= 2 that is fed n
\* adversary events inside the time window, one per evaluation, pushes exactly
\* one alert, on the n-th evaluation, and that evaluation empties the rule's
\* history: one more adversary event fed right afterwards gives no alert.
C12_PersistentFiresOnceThenResets ==
    rdl.n > 0 =>
      \A k \in RulesOfType("persistent_sighting") :
        LET n == rules[k].params.min_detections
            alerts == AlertsOf(rdl.out.newAlerts, rules[k].id)
        IN (/\ n >= 2
            /\ rdl.streak \in 1..n
            /\ rdl.now - rdl.streakFirst < rules[k].params.time_window_s * 1000)
           => IF rdl.streak = n
              THEN /\ Len(alerts) = 1
                   /\ Len(alerts[1].relatedEvents) = n
                   /\ rdl.out.updatedState[rules[k].id] = ListVal(<<>>)
              ELSE alerts = <<>>

\* three events fed, the alert on the third, and a fourth event without alert
C12_Witness ==
    /\ rdl.n = 4
    /\ rules = <<Persistent("ps3", 3, 3)>>
    /\ rdl.afterAlert
    /\ rdl.streak = 1
    /\ Len(AdversaryEvents) = 1
    /\ rdl.out.newAlerts = <<>>

\* the history a persistent_sighting rule has stored after the last call
StoredHistory(id) == rdl.out.updatedState[id].list

\* the stored history of the rule rules[k] holds adversary events only, all
\* inside the window, and fewer than min_detections
PersistentHistoryBounded(k) ==
    LET h == StoredHistory(rules[k].id)
    IN /\ \A i \in DOMAIN h :
            /\ h[i].actorId = <<"adv", 1>>
            /\ rdl.now - h[i].timestamp < rules[k].params.time_window_s * 1000
       /\ Len(h) < rules[k].params.min_detections

\* C13 as stated: after every call of runDetectionLogic that produced an
\* event, the history stored for a persistent_sighting rule (min_detections
\* >= 1, an id of its own) holds only adversary events, only events younger
\* than time_window_s seconds at the call's now, and fewer than min_detections.
C13_Original ==
    (rdl.n > 0 /\ rdl.out.newEvents # <<>>) =>
      \A k \in RulesOfType("persistent_sighting") :
        rules[k].params.min_detections >= 1 => PersistentHistoryBounded(k)

\* C13 (amended): the same for a rule with time_window_s > 0.  With a window
\* of 0 the events of the call are appended after the pruning and stay in the
\* history though they are not younger than the window.
C13_PersistentHistoryInWindow ==
    (rdl.n > 0 /\ rdl.out.newEvents # <<>>) =>
      \A k \in RulesOfType("persistent_sighting") :
        (rules[k].params.min_detections >= 1 /\ rules[k].params.time_window_s > 0)
            => PersistentHistoryBounded(k)

\* a call that pruned an event too old, stored the new adversary event and
\* saw a civilian event as well
C13_Witness ==
    /\ rdl.n > 0
    /\ rules = <<Persistent("ps", 2, 2)>>
    /\ "ps" \in DOMAIN rdl.stateBefore
    /\ \E i \in DOMAIN rdl.stateBefore["ps"].list :
          rdl.now - rdl.stateBefore["ps"].list[i].timestamp >= 2000
    /\ CivilianEvents # <<>>
    /\ Len(StoredHistory("ps")) = 1
    /\ StoredHistory("ps")[1].timestamp = rdl.now

\* the cooldown timestamp stored for a group_sighting rule before the last
\* call, as a set of at most one number
CooldownBefore(id) ==
    IF (id \o "-cooldown") \in DOMAIN rdl.stateBefore
    THEN {rdl.stateBefore[id \o "-cooldown"].num} ELSE {}

\* the history a group_sighting rule should hold after the last call: the
\* events it held and the events of the call, those inside the window
GroupHistory(k) ==
    LET old == IF rules[k].id \in DOMAIN rdl.stateBefore
               THEN rdl.stateBefore[rules[k].id].list ELSE <<>>
    IN SelectSeq(old \o rdl.out.newEvents,
                 LAMBDA e : rdl.now - e.timestamp < rules[k].params.time_window_s * 1000)

\* the distinct actors, the adversary included, with a history event within
\* radius_m of the adversary event a
DistinctActorsNear(a, k) ==
    {a.actorId} \cup
    {e.actorId : e \in {GroupHistory(k)[i] : i \in {j \in DOMAIN GroupHistory(k) :
        Abs(GroupHistory(k)[j].actorPos - a.actorPos) < rules[k].params.radius_m}}}

\* some adversary event of the last call has min_actors distinct actors near
Qualifies(k) ==
    \E i \in DOMAIN AdversaryEvents :
        Cardinality(DistinctActorsNear(AdversaryEvents[i], k)) >= rules[k].params.min_actors

\* C14: a group_sighting rule keeps a history of the events of all actors
\* pruned to the time window, counts for each adversary event of the call the
\* distinct actor ids (the adversary included) with a history event within
\* radius_m, and outside a cooldown (no cooldown timestamp in the future)
\* pushes a critical alert iff that count is at least min_actors.
C14_GroupCountsDistinctActors ==
    (rdl.n > 0 /\ rdl.out.newEvents # <<>>) =>
      \A k \in RulesOfType("group_sighting") :
        LET alerts == AlertsOf(rdl.out.newAlerts, rules[k].id)
        IN /\ rdl.out.updatedState[rules[k].id] = ListVal(GroupHistory(k))
           /\ \A i \in DOMAIN alerts : alerts[i].level = "critical"
           /\ (\A c \in CooldownBefore(rules[k].id) : ~(c > rdl.now))
                 => ((alerts # <<>>) <=> Qualifies(k))

\* C15: after a group_sighting rule has fired at time t, every later call with
\* now < t + time_window_s * 1000 pushes no alert for the rule, also when the
\* distinct-actor count reaches min_actors again; firing sets the rule's
\* cooldown to now + time_window_s * 1000.
C15_GroupCooldownSuppresses ==
    rdl.n > 0 =>
      \A k \in RulesOfType("group_sighting") :
        LET id == rules[k].id
            alerts == AlertsOf(rdl.out.newAlerts, id)
            window == rules[k].params.time_window_s * 1000
        IN /\ (id \in DOMAIN rdl.firedBefore /\ rdl.now < rdl.firedBefore[id] + window)
                => alerts = <<>>
           /\ alerts # <<>>
                => rdl.out.updatedState[id \o "-cooldown"] = NumVal(rdl.now + window)

\* one second after the rule fired the adversary and the civilian are seen
\* together again, and no alert is pushed
C15_Witness ==
    /\ rdl.n > 0
    /\ rules = <<Group("gs", 2, 2, 2)>>
    /\ "gs" \in DOMAIN rdl.firedBefore
    /\ rdl.now = rdl.firedBefore["gs"] + 1000
    /\ Qualifies(1)
    /\ rdl.out.newAlerts = <<>>
    /\ rdl.out.updatedState["gs-cooldown"] = NumVal(rdl.firedBefore["gs"] + 2000)

\* C16: a qualifying group_sighting evaluation is suppressed exactly when the
\* stored cooldown timestamp is still in the future (cooldown > now); when now
\* equals the cooldown timestamp or is later the rule fires again.
C16_CooldownBoundary ==
    (rdl.n > 0 /\ rdl.out.newEvents # <<>>) =>
      \A k \in RulesOfType("group_sighting") :
        \A c \in CooldownBefore(rules[k].id) :
          Qualifies(k) =>
            ((AlertsOf(rdl.out.newAlerts, rules[k].id) = <<>>) <=> (c > rdl.now))

\* C17: when a call generates no sensor event, runDetectionLogic returns no
\* alert and the rolling state as it was passed in (same keys and values, no
\* pruning, no cooldown change), whatever the rules are.
C17_NoEventsNoChange ==
    (rdl.n > 0 /\ rdl.out.newEvents = <<>>) =>
        /\ rdl.out.newAlerts = <<>>
        /\ rdl.out.updatedState = rdl.stateBefore
        /\ DOMAIN rdl.out.updatedState = DOMAIN rdl.stateBefore
        /\ ~rdl.out.threw

\* no event in a call whose state holds an event older than the rule's window
C17_Witness ==
    /\ rdl.n > 0
    /\ rules = <<Persistent("ps", 2, 2)>>
    /\ rdl.out.newEvents = <<>>
    /\ "ps" \in DOMAIN rdl.stateBefore
    /\ \E i \in DOMAIN rdl.stateBefore["ps"].list :
          rdl.now - rdl.stateBefore["ps"].list[i].timestamp >= 2000
    /\ rdl.out.updatedState = rdl.stateBefore

\* the three types the switch has a case for, and the rule set without the
\* rules of another type
KnownTypes == {"high_confidence_sighting", "persistent_sighting", "group_sighting"}
KnownRules == SelectSeq(rules, LAMBDA rule : rule.type \in KnownTypes)
UnknownRuleIds == {rules[k].id : k \in {i \in DOMAIN rules : rules[i].type \notin KnownTypes}}

\* the result of the last call had the rules of unknown type been absent
WithoutUnknown ==
    EvalRules(1, KnownRules,
              [alerts |-> <<>>, state |-> rdl.stateBefore, threw |-> FALSE,
               input |-> rdl.stateBefore],
              rdl.out.newEvents, AdversaryId(rdl.actors), rdl.now)

\* C18: a rule of a type other than the three known ones is skipped without an
\* error: it pushes no alert, adds or changes no entry of the rolling state,
\* and the other rules are evaluated with the result they would have without it.
C18_UnknownRuleSkipped ==
    (rdl.n > 0 /\ rdl.out.newEvents # <<>> /\ UnknownRuleIds # {}) =>
        /\ ~rdl.out.threw
        /\ AlertedRules(rdl.out.newAlerts) \cap UnknownRuleIds = {}
        /\ (DOMAIN rdl.out.updatedState) \cap UnknownRuleIds = {}
        /\ rdl.out.newAlerts = WithoutUnknown.alerts
        /\ rdl.out.updatedState = WithoutUnknown.state

\* the rules before and after the unknown one both fire in the call
C18_Witness ==
    /\ rdl.n > 0
    /\ rules = <<Persistent("ps", 2, 2), Unknown("zb"), HighConfidence("hc", 85, 100)>>
    /\ AlertedRules(rdl.out.newAlerts) = {"ps", "hc"}
    /\ rdl.out.updatedState["ps"] = ListVal(<<>>)

C20_TwoExecutionsIdentical ==
    rdl.n > 0 =>
        /\ rdl.out.newEvents = rdl.out2.newEvents
        /\ rdl.out.newAlerts = rdl.out2.newAlerts
        /\ rdl.out.updatedState = rdl.out2.updatedState

-----------------------------------------------------------------------------
(* The PRNG of src/utils/prng.ts (Mulberry32).                             *)
(*                                                                         *)
(* An integer-valued JavaScript number is a record [hi, lo] that stands    *)
(* for hi * 65536 + lo, with lo in 0..65535 and hi of either sign, so that *)
(* no intermediate value of the model leaves the integers the checker      *)
(* computes with.  The field seed is a JavaScript number that grows with   *)
(* every call (+= does not wrap); the bitwise operators and Math.imul      *)
(* convert their operands to 32 bits.                                      *)

Limb == 65536

Word(hi, lo) == [hi |-> hi, lo |-> lo]

\* the JavaScript number a + b
Add(a, b) == Word(a.hi + b.hi + ((a.lo + b.lo) \div Limb), (a.lo + b.lo) % Limb)

\* ToUint32: the value modulo 2^32
ToUint32(x) == Word(x.hi % Limb, x.lo)

\* ToInt32: the value modulo 2^32, read as a signed 32-bit integer
ToInt32(x) ==
    IF x.hi % Limb >= Limb \div 2 THEN Word((x.hi % Limb) - Limb, x.lo)
    ELSE Word(x.hi % Limb, x.lo)

\* bitwise exclusive or and bitwise or of two naturals
RECURSIVE BitXor(_, _)
BitXor(a, b) ==
    IF a = 0 THEN b
    ELSE IF b = 0 THEN a
    ELSE 2 * BitXor(a \div 2, b \div 2) + ((a + b) % 2)

RECURSIVE BitOr(_, _)
BitOr(a, b) ==
    IF a = 0 THEN b
    ELSE IF b = 0 THEN a
    ELSE 2 * BitOr(a \div 2, b \div 2) + (IF a % 2 = 1 \/ b % 2 = 1 THEN 1 ELSE 0)

\* a ^ b
Xor(a, b) ==
    ToInt32(Word(BitXor(ToUint32(a).hi, ToUint32(b).hi), BitXor(a.lo, b.lo)))

\* a | b
Or(a, b) ==
    ToInt32(Word(BitOr(ToUint32(a).hi, ToUint32(b).hi), BitOr(a.lo, b.lo)))

RECURSIVE Pow2(_)
Pow2(n) == IF n = 0 THEN 1 ELSE 2 * Pow2(n - 1)

\* a >>> n for n in 0..15: the unsigned value shifted right
UShr(a, n) ==
    LET u == ToUint32(a)
    IN Word(u.hi \div Pow2(n),
            (u.lo \div Pow2(n)) + ((u.hi % Pow2(n)) * Pow2(16 - n)))

\* x * y modulo 2^16 of two limbs
MulLow(x, y) == (x * (y % 256) + ((x * (y \div 256)) % 256) * 256) % Limb

\* x * y of two limbs, as a number below 2^32
MulLimbs(x, y) ==
    LET p0 == x * (y % 256)
        p1 == x * (y \div 256)
        low == (p1 % 256) * 256 + p0
    IN Word(((p1 \div 256) + (low \div Limb)) % Limb, low % Limb)

\* Math.imul(a, b): the low 32 bits of the product, signed
Imul(a, b) ==
    LET ua == ToUint32(a)
        ub == ToUint32(b)
        ll == MulLimbs(ua.lo, ub.lo)
    IN ToInt32(Word((ll.hi + MulLow(ua.hi, ub.lo) + MulLow(ua.lo, ub.hi)) % Limb, ll.lo))

\* 0x6D2B79F5
Increment == Word(27947, 31221)

\* the mutant of Mulberry32: the result is not made unsigned (no >>> 0)
Mulberry32Signed(seed) ==
    LET t1 == Imul(Xor(seed, UShr(seed, 15)), Or(seed, Word(0, 1)))
        t2 == Xor(t1, Add(t1, Imul(Xor(t1, UShr(t1, 7)), Or(t1, Word(0, 61)))))
    IN Xor(t2, UShr(t2, 14))

\* lines 18-20 of next(): the numerator of the value returned, from the value
\* of this.seed after the increment; the value returned is this / 4294967296
Mulberry32(seed) ==
    LET t1 == Imul(Xor(seed, UShr(seed, 15)), Or(seed, Word(0, 1)))
        t2 == Xor(t1, Add(t1, Imul(Xor(t1, UShr(t1, 7)), Or(t1, Word(0, 61)))))
    IN UShr(Xor(t2, UShr(t2, 14)), 0)

\* new PRNG(seed)
PRNG(seed) == [seed |-> seed]

\* next(): the object after the call and the numerator of the value returned
next(p) ==
    LET t == Add(p.seed, Increment)
    IN [prng |-> [seed |-> t], value |-> Mulberry32(t)]

\* the mutant of SeedCell: the seed is one cell shared by every object
SeedCellShared(i) == 1

\* the object whose field seed a call on object i reads and writes: the
\* field is a private instance field
SeedCell(i) == i

\* a value v / 4294967296 is in [0, 1) when 0 <= v < 2^32
InUnitInterval(v) == v.lo \in 0..(Limb - 1) /\ v.hi \in 0..(Limb - 1)

MaxDraws == 3

\* the seeds tried: 0, 1, 42, 12345, -1, 2^31 - 1, -2^31, 2^32 - 1, 2^32 + 7
\* and 1730480000000 (a Date.now() value)
Seeds == {Word(0, 0), Word(0, 1), Word(0, 42), Word(0, 12345), Word(-1, 65535),
          Word(32767, 65535), Word(-32768, 0), Word(65535, 65535),
          Word(65536, 7), Word(26405029, 19456)}

\* two PRNG objects are constructed from one seed
NewPRNGs ==
    /\ ~prngs.made
    /\ \E seed \in Seeds :
          prngs' = [made |-> TRUE, seed |-> seed,
                    obj |-> [i \in 1..2 |-> PRNG(seed)],
                    out |-> [i \in 1..2 |-> <<>>]]
    /\ UNCHANGED <<orchVars, detVars, ruleVars, sessVars>>

\* next() is called on object i
CallNext(i) ==
    /\ prngs.made
    /\ Len(prngs.out[i]) < MaxDraws
    /\ \E res \in {next(prngs.obj[SeedCell(i)])} :
          prngs' = [prngs EXCEPT !.obj[SeedCell(i)] = res.prng,
                                 !.out[i] = Append(@, res.value)]
    /\ UNCHANGED <<orchVars, detVars, ruleVars, sessVars>>

CallFirst == CallNext(1)

CallSecond == CallNext(2)

NextPrng == NewPRNGs \/ CallFirst \/ CallSecond

SpecPrng == Init /\ [][NextPrng]_vars

\* the value of the k-th call on an object made from seed
RECURSIVE NthValue(_, _)
NthValue(seed, k) ==
    IF k = 1 THEN next(PRNG(seed)).value
    ELSE NthValue(next(PRNG(seed)).prng.seed, k - 1)

-----------------------------------------------------------------------------
(* Claims about the PRNG (SpecPrng).                                       *)

C22_ValueInUnitInterval ==
    prngs.made =>
        \A i \in 1..2 : \A k \in 1..Len(prngs.out[i]) : InUnitInterval(prngs.out[i][k])

\* a call has returned a value of 1/2 or more: its numerator has bit 31 set,
\* which the signed 32-bit result of the last xor reads as a negative number
C22_Witness ==
    /\ prngs.made
    /\ \E i \in 1..2 : \E k \in 1..Len(prngs.out[i]) :
          /\ prngs.out[i][k].hi >= Limb \div 2
          /\ prngs.seed.hi < 0

-----------------------------------------------------------------------------
(* Claim about the order of the PRNG calls of a tick (Spec).               *)

\* the pairs of S in ascending order: by the first component, then the second
RECURSIVE SortedPairs(_)
SortedPairs(S) ==
    IF S = {} THEN <<>>
    ELSE LET m == CHOOSE p \in S : \A q \in S :
                      p[1] < q[1] \/ (p[1] = q[1] /\ p[2] <= q[2])
         IN <<m>> \o SortedPairs(S \ {m})

\* one call per civilian at the end of its path, in actor order
PoiDrawOrder(actorsBefore) ==
    LET idx == SortedPairs({<<i, i>> : i \in Repathed(actorsBefore)})
    IN [k \in DOMAIN idx |-> <<"poi", idx[k][1], 0>>]

\* one call per (actor, sensor) pair in range, actor-major and sensor-minor
PairDrawOrder(actors, sens) ==
    LET idx == SortedPairs(InRangePairs(actors, sens))
    IN [k \in DOMAIN idx |-> <<"pair", idx[k][1], idx[k][2]>>]

-----------------------------------------------------------------------------
(* The services (src/services/geminiService.ts) and handleStartScenario.    *)
(*                                                                         *)
(* A reply of the language model is one of: the API call throws, the text  *)
(* is no JSON, or the text parses to a JSON value.  handleStartScenario is *)
(* an async function: session.pc is the await it is suspended at ("idle"   *)
(* when no call is in progress, "failed" when a call has ended in an       *)
(* exception).  The variables of the tick loop hold the run of the mounted *)
(* component; session.orphan holds the loop of a component whose view was  *)
(* closed while its interval was active.  Replies that arrive for a closed *)
(* view are not followed.                                                  *)

MaxStarts == 2    \* calls of handleStartScenario explored
MaxOpens == 2     \* times the view is opened

\* SCENARIOS[i].rules (mapData.ts)
SCENARIO_RULES == <<
    <<HighConfidence("high_confidence_sighting_v1", 85, 100),
      Persistent("persistent_sighting_v1", 10, 3)>>,
    <<HighConfidence("high_confidence_sighting_v2", 80, 100)>>
  >>

\* replies to the planner prompt: failures, JSON null, an object without a
\* path, and objects with a path of 0, 1 and 3 waypoints (none of them at a
\* POI end), one of them passing the position of sensor S11
PlannerReplies == {
    [kind |-> "apiError", hasPath |-> FALSE, path |-> <<>>],
    [kind |-> "badJson", hasPath |-> FALSE, path |-> <<>>],
    [kind |-> "null", hasPath |-> FALSE, path |-> <<>>],
    [kind |-> "noPath", hasPath |-> FALSE, path |-> <<>>],
    [kind |-> "emptyPath", hasPath |-> TRUE, path |-> <<>>],
    [kind |-> "onePoint", hasPath |-> TRUE, path |-> <<100>>],
    [kind |-> "threePoints", hasPath |-> TRUE, path |-> <<100, 100, 100>>],
    [kind |-> "viaSensor", hasPath |-> TRUE, path |-> <<100, 250, 100>>]
  }

\* generateAdversarialScenario(start, end, ...) for a reply: the path of the
\* scenario it returns, and whether the catch block produced it.  A throwing
\* API call, JSON.parse of a text that is no JSON and scenario.path of null
\* all end in the catch block.  The two assignments of lines 122-123 are made
\* in this order; on a one-point path both write element 0.
generateAdversarialScenario(reply, start, end) ==
    IF reply.kind \in {"apiError", "badJson", "null"}
    THEN [path |-> <<PoiPos(start), PoiPos(end)>>, caught |-> TRUE]
    ELSE IF reply.hasPath /\ Len(reply.path) > 0
    THEN [path |-> [[reply.path EXCEPT ![1] = PoiPos(start)]
                       EXCEPT ![Len(reply.path)] = PoiPos(end)],
          caught |-> FALSE]
    ELSE [path |-> <<PoiPos(start), PoiPos(end)>>, caught |-> FALSE]

\* the PatchSuggestion of the catch block of generateRulePatch
FallbackPatch ==
    [hasRule |-> TRUE, rule |-> HighConfidence("fallback_rule", 95, 100),
     explanation |-> "fallback"]

\* a reply that parses to an object with a rule
PatchReply(kind, rule) ==
    [kind |-> kind, value |-> [hasRule |-> TRUE, rule |-> rule,
                               explanation |-> "generated"]]

\* replies to the patch prompt: failures, a new rule, a rule with the id of
\* an active rule, and the object {} (it has no field rule)
PatchReplies == {
    [kind |-> "apiError", value |-> NoPatch],
    [kind |-> "badJson", value |-> NoPatch],
    PatchReply("newRule", Group("group_sighting_meadow", 100, 10, 2)),
    PatchReply("sameId", HighConfidence("high_confidence_sighting_v1", 1, 2)),
    [kind |-> "emptyObject", value |-> [hasRule |-> FALSE, explanation |-> "none"]]
  }

\* the mutant of generateRulePatch: a failed call returns no patch
generateRulePatchNoFallback(reply) ==
    IF reply.kind \in {"apiError", "badJson"} THEN NoPatch ELSE reply.value

\* generateRulePatch for a reply: JSON.parse(response.text) as it is, or the
\* fallback of the catch block
generateRulePatch(reply) ==
    IF reply.kind \in {"apiError", "badJson"} THEN FallbackPatch ELSE reply.value

\* rules.filter(r => r.type !== t) for the types in excluded
WithoutTypes(rs, excluded) == SelectSeq(rs, LAMBDA r : r.type \notin excluded)

\* the mutant of PatchPoint: the patch is requested when the run starts
PatchPointEarly(res) == TRUE

\* the patch is requested after `await runSimulationPromise(...)` has
\* returned the verdict
PatchPoint(res) == res # <<>>

\* the view is opened: a component is mounted with its initial React state
Open ==
    /\ ~session.mounted
    /\ session.opens < MaxOpens
    /\ session' = [NoSession EXCEPT !.mounted = TRUE,
                                    !.opens = session.opens + 1,
                                    !.starts = session.starts,
                                    !.activeRules = SCENARIO_RULES[1],
                                    !.orphan = session.orphan]
    /\ UNCHANGED <<orchVars, detVars, ruleVars, prngVars>>

\* what resetFullExperiment leaves in the React state
resetFullExperiment(ses) ==
    [ses EXCEPT !.isRunning = FALSE,
                !.activeRules = WithoutTypes(SCENARIO_RULES[ses.scenarioIndex + 1],
                                             {"persistent_sighting"}),
                !.simulationVerdict = "null"]

\* the Reset button (disabled while isRunning)
Reset ==
    /\ session.mounted
    /\ ~session.isRunning
    /\ session' = resetFullExperiment(session)
    /\ events' = <<>>
    /\ UNCHANGED <<runStarted, intervalActive, resolved, currentActors, detectionState,
                   sensors, rules, clock, prngCalls, tickCount, lastTick,
                   detVars, ruleVars, prngVars>>

\* the mutant of InitialRules: the run starts from the rules on display
InitialRulesFromActive(ses) ==
    WithoutTypes(ses.activeRules, {"persistent_sighting", "group_sighting"})

\* initialRules of handleStartScenario (line 112)
InitialRules(ses) ==
    WithoutTypes(SCENARIO_RULES[ses.scenarioIndex + 1],
                 {"persistent_sighting", "group_sighting"})

\* the Run Scenario button (disabled while isRunning): handleStartScenario up
\* to `await generateAdversarialScenario`.  The closure of an earlier run is
\* out of reach from here on; a new PRNG is made and called twice per civilian
StartScenario ==
    /\ session.mounted
    /\ ~session.isRunning
    /\ session.starts < MaxStarts
    /\ \E civDraw \in [1..CIVILIAN_COUNT -> RSet \X RSet] :
        LET initialRules == InitialRules(session)
        IN session' = [resetFullExperiment(session) EXCEPT
                          !.isRunning = TRUE,
                          !.starts = session.starts + 1,
                          !.pc = "planning",
                          !.activeRules = initialRules,
                          !.currentRules = initialRules,
                          !.civilians = [i \in 1..CIVILIAN_COUNT |->
                              MakeCivilian(i - 1, civDraw[i][1], civDraw[i][2])],
                          !.simulationVerdict = "PENDING",
                          !.planned = "none",
                          !.patchReply = "none",
                          !.generatedPatch = NoPatch]
    /\ events' = <<>>
    /\ prngCalls' = 2 * CIVILIAN_COUNT
    /\ runStarted' = FALSE
    /\ resolved' = <<>>
    /\ currentActors' = <<>>
    /\ tickCount' = 0
    /\ lastTick' = NoTick
    /\ UNCHANGED <<intervalActive, detectionState, sensors, rules, clock,
                   detVars, ruleVars, prngVars>>

\* the planner has replied: handleStartScenario from line 130 to the call of
\* runSimulationPromise, which sets the interval
PlannerReturns ==
    /\ session.mounted
    /\ session.pc = "planning"
    /\ \E reply \in PlannerReplies :
       \E scenario \in {generateAdversarialScenario(reply, "Parking", "Meadow")} :
          /\ BeginRun(<<MakeAdversary(scenario.path)>> \o session.civilians,
                      SCENARIOS[session.scenarioIndex + 1].sensors,
                      session.currentRules)
          /\ session' = [session EXCEPT !.pc = "running", !.planned = reply.kind]
    /\ UNCHANGED <<clock, prngCalls, tickCount, lastTick, detVars, ruleVars, prngVars>>

\* setIsRunning(false) and the step to the next scenario (lines 158-160)
Finished(ses) ==
    [ses EXCEPT !.isRunning = FALSE,
                !.scenarioIndex = (ses.scenarioIndex + 1) % Len(SCENARIOS),
                !.pc = "idle"]

\* the run has resolved: handleStartScenario from line 140 to `await
\* generateRulePatch`, or to its end after the verdict DETECTED
AfterVerdict ==
    /\ session.mounted
    /\ session.pc = "running"
    /\ PatchPoint(resolved)
    /\ LET verdict == IF resolved = <<>> THEN "PENDING" ELSE resolved[1]
           seen == [session EXCEPT !.simulationVerdict = verdict]
       IN session' = IF verdict = "DETECTED" THEN Finished(seen)
                     ELSE [seen EXCEPT !.pc = "patching"]
    /\ UNCHANGED <<orchVars, detVars, ruleVars, prngVars>>

\* the patch generator has replied: lines 146-151.  generatedPatch.rule.id of
\* a patch without a rule is a TypeError, which nothing catches: the call of
\* handleStartScenario ends there
PatchReturns ==
    /\ session.mounted
    /\ session.pc = "patching"
    /\ \E reply \in PatchReplies :
       \E generatedPatch \in {generateRulePatch(reply)} :
          session' =
             IF ~generatedPatch.hasRule
             THEN [session EXCEPT !.pc = "failed", !.failed = TRUE,
                                  !.patchReply = reply.kind,
                                  !.generatedPatch = generatedPatch]
             ELSE LET currentRules ==
                         SelectSeq(session.currentRules,
                                   LAMBDA r : r.id # generatedPatch.rule.id)
                         \o <<generatedPatch.rule>>
                  IN [session EXCEPT !.pc = "analysing",
                                     !.patchReply = reply.kind,
                                     !.generatedPatch = generatedPatch,
                                     !.currentRules = currentRules,
                                     !.activeRules = currentRules]
    /\ UNCHANGED <<orchVars, detVars, ruleVars, prngVars>>

\* generatePostIncidentAnalysis has returned (a text, or the text of its
\* catch block): lines 153-160
AnalysisReturns ==
    /\ session.mounted
    /\ session.pc = "analysing"
    /\ session' = Finished(session)
    /\ UNCHANGED <<orchVars, detVars, ruleVars, prngVars>>

\* what closing the view leaves of an active interval: the component has no
\* effect cleanup and the timer is never cleared, so the callback keeps
\* running on its closure
OrphanAfterClose(active, orphan) ==
    IF active
    THEN [active |-> TRUE, actors |-> currentActors, state |-> detectionState,
          sensors |-> sensors, rules |-> rules, n |-> tickCount,
          ticksAfterClose |-> 0]
    ELSE orphan

\* the view is closed (another feature is selected): the component is
\* unmounted and its React state is gone.  One interval of a closed view is
\* followed at a time
Close ==
    /\ session.mounted
    /\ ~(intervalActive /\ session.orphan.active)
    /\ session' = [NoSession EXCEPT !.opens = session.opens,
                                    !.starts = session.starts,
                                    !.orphan = OrphanAfterClose(intervalActive,
                                                                session.orphan)]
    /\ runStarted' = FALSE
    /\ intervalActive' = FALSE
    /\ resolved' = <<>>
    /\ currentActors' = <<>>
    /\ detectionState' = EmptyState
    /\ sensors' = <<>>
    /\ rules' = <<>>
    /\ events' = <<>>
    /\ prngCalls' = 0
    /\ tickCount' = 0
    /\ lastTick' = NoTick
    /\ UNCHANGED <<clock, detVars, ruleVars, prngVars>>

\* one interval callback of the closed view
OrphanTick ==
    /\ session.orphan.active
    /\ session.orphan.n < MaxTicks
    /\ \E dt \in TickDelays,
          poiDraw \in [Repathed(session.orphan.actors) -> RSet] :
       \E draw \in [DetectionPairs(session.orphan.actors, poiDraw,
                                   session.orphan.sensors) -> RSet] :
       \E res \in {TickResult(session.orphan.actors, session.orphan.state, TRUE,
                              session.orphan.sensors, session.orphan.rules,
                              session.orphan.n + 1, poiDraw, draw, clock + dt)} :
           /\ clock' = clock + dt
           /\ session' = [session EXCEPT
                             !.orphan.active = res.active,
                             !.orphan.actors = res.actors,
                             !.orphan.state = res.state,
                             !.orphan.n = @ + 1,
                             !.orphan.ticksAfterClose = @ + 1]
    /\ UNCHANGED <<runStarted, intervalActive, resolved, currentActors, detectionState,
                   sensors, rules, events, prngCalls, tickCount, lastTick,
                   detVars, ruleVars, prngVars>>

NextSession ==
    \/ Open \/ Reset \/ StartScenario \/ PlannerReturns \/ Tick \/ AfterVerdict
    \/ PatchReturns \/ AnalysisReturns \/ Close \/ OrphanTick

SpecSession == Init /\ [][NextSession]_vars

-----------------------------------------------------------------------------
(* Claims about the services and handleStartScenario (SpecSession).        *)

\* the path of the adversary of the run in progress
ScenarioPath == TheAdversary(currentActors).path

\* the replies for which the two-point path is used
NoPathReplies == {"apiError", "badJson", "null", "noPath", "emptyPath"}

\* C23: whatever the planner replies, the path of the scenario handed to the
\* orchestrator starts at the start POI (Parking) and ends at the end POI
\* (Meadow); when the call fails or the reply has no path or an empty one,
\* the path is the two-point path <<start, end>>.
C23_PathEndsForced ==
    (session.mounted /\ runStarted /\ session.planned # "none") =>
        /\ ScenarioPath[1] = PoiPos("Parking")
        /\ ScenarioPath[Len(ScenarioPath)] = PoiPos("Meadow")
        /\ session.planned \in NoPathReplies =>
              ScenarioPath = <<PoiPos("Parking"), PoiPos("Meadow")>>


\* C24: whenever the call of the patch generator fails (the API call throws
\* or its text is no JSON), generateRulePatch returns the fixed fallback
\* suggestion, a high_confidence_sighting rule with min_confidence 0.95, and
\* no error reaches handleStartScenario.
C24_PatchFallback ==
    (session.mounted /\ session.patchReply \in {"apiError", "badJson"}) =>
        /\ session.generatedPatch = FallbackPatch
        /\ session.generatedPatch.rule.type = "high_confidence_sighting"
        /\ session.generatedPatch.rule.params.min_confidence = Rat(95, 100)
        /\ ~session.failed
        /\ session.pc # "failed"

\* a call of handleStartScenario has ended after a failed patch call: the
\* fallback rule is among the active rules
C24_Witness ==
    /\ session.mounted
    /\ session.patchReply = "badJson"
    /\ session.pc = "idle"
    /\ ~session.isRunning
    /\ \E k \in DOMAIN session.activeRules :
          session.activeRules[k] = HighConfidence("fallback_rule", 95, 100)


\* C25: whatever the planner and the patch generator reply or throw, no error
\* leaves handleStartScenario and the call runs to its end: isRunning is true
\* only while the call is still in progress (waiting for a service or for the
\* verdict), so it becomes false again.
C25_StartScenarioCompletes ==
    session.mounted =>
        /\ ~session.failed
        /\ session.isRunning =>
              session.pc \in {"planning", "running", "patching", "analysing"}


\* the interval of the mounted component, or that of a closed view, is active
LoopActive == intervalActive \/ session.orphan.active

\* C26: the rule set of a run is fixed when the run starts: while the
\* interval of a run is active its rules do not change, and the patch (the
\* only change handleStartScenario makes to activeRules after the start) is
\* requested and applied only once the run has resolved, never between two
\* ticks.
C26_RulesFixedDuringRun ==
    [][/\ (intervalActive /\ intervalActive') => rules' = rules
       /\ (session.orphan.active /\ session'.orphan.active) =>
             session'.orphan.rules = session.orphan.rules
       /\ (session.mounted /\ session'.mounted /\ intervalActive) =>
             /\ session'.activeRules = session.activeRules
             /\ session'.currentRules = session.currentRules
             /\ session'.pc \in {"running"}
       /\ session'.pc \in {"patching", "analysing"} =>
             (~intervalActive' /\ resolved' # <<>> /\ rules' = rules)]_vars

\* a patch has been applied after a run of several ticks: the active rules
\* differ from the rules the run was evaluated with
C26_Witness ==
    /\ session.mounted
    /\ session.pc = "analysing"
    /\ tickCount >= 2
    /\ resolved = <<"BYPASSED">>
    /\ session.activeRules # rules
    /\ rules = <<HighConfidence("high_confidence_sighting_v1", 85, 100)>>

-----------------------------------------------------------------------------
(* runSimulationPromise called again after a run has resolved, with rules  *)
(* that keep rolling state (SpecRuns).  session.starts counts the calls;   *)
(* lastTick keeps the last tick of the run before until the first tick of  *)
(* the new run.                                                            *)

\* the paths of the runs: at least one tick reaches the detection step
RunPaths == {p \in AdversaryPaths : Len(p) >= 3}

\* the civilian of the runs: one, on any of the paths handleStartScenario
\* can give it
RunCivilians == {MakeCivilian(0, r1, r2) : r1 \in RSet, r2 \in RSet}

\* the rule set of the runs: a persistent_sighting and a group_sighting rule
StatefulRules ==
    <<Persistent("persistent_sighting_v1", 2, 2), Group("group_sighting_v1", 100, 2, 2)>>

\* runSimulationPromise is called with a new PRNG: the first run, or a run
\* after the run before has resolved
CallRun ==
    /\ ~runStarted \/ resolved # <<>>
    /\ session.starts < MaxStarts
    /\ \E path \in RunPaths, civilian \in RunCivilians :
        BeginRun(<<MakeAdversary(path), civilian>>, SCENARIOS[1].sensors, StatefulRules)
    /\ prngCalls' = 0
    /\ tickCount' = 0
    /\ session' = [session EXCEPT !.starts = @ + 1]
    /\ UNCHANGED <<clock, lastTick, detVars, ruleVars, prngVars>>

NextRuns == CallRun \/ Tick

SpecRuns == Init /\ [][NextRuns]_vars

\* the value of Date.now() when the run in progress was started
RunStartedAt == clock - tickCount * TICK_RATE_MS

\* the events the rolling state holds, under any key
StateEvents(state) ==
    UNION {{state[k].list[i] : i \in DOMAIN state[k].list} : k \in DOMAIN state}

\* C27: every run starts with an empty rolling detection state and an empty
\* event history: right after runSimulationPromise is called both are empty,
\* and during the run they hold nothing of an earlier run (no event older
\* than the start of the run, no cooldown set before it).
C27_RunStartsEmpty ==
    runStarted =>
        /\ tickCount = 0 => (detectionState = EmptyState /\ events = <<>>)
        /\ \A e \in StateEvents(detectionState) : e.timestamp > RunStartedAt
        /\ \A i \in DOMAIN events : events[i].timestamp > RunStartedAt
        /\ \A k \in DOMAIN detectionState :
              detectionState[k].isNum => detectionState[k].num > RunStartedAt

\* a second run has just been started after a run whose last tick (lastTick
\* still shows it) ended it BYPASSED with an event stored in the rolling state
C27_Witness ==
    /\ runStarted /\ tickCount = 0 /\ session.starts = 2
    /\ lastTick.n > 0 /\ lastTick.bypass
    /\ StateEvents(lastTick.stateBefore) # {}
    /\ detectionState = EmptyState /\ events = <<>>

-----------------------------------------------------------------------------
(* Claims about the tick loops of the component (SpecSession).             *)

\* C28: at any time at most one tick loop is active: runSimulationPromise
\* never sets an interval while the interval of an earlier run has not been
\* cleared, so the ticks of two runs never interleave.
C28_OneTickLoop ==
    [][/\ (session.pc = "planning" /\ session'.pc = "running") => ~LoopActive
       /\ ~(intervalActive' /\ session'.orphan.active)]_vars

\* C29: a running scenario is cancelled by an external stop signal.  Reset
\* cannot be given while a scenario runs (the button is disabled), closing
\* the view is the signal left: once the view is closed the interval of the
\* run is cleared and no further tick of it executes, so that nothing of the
\* run changes afterwards.
C29_StopCancelsRun ==
    ~session.mounted =>
        (~session.orphan.active /\ session.orphan.ticksAfterClose = 0)

-----------------------------------------------------------------------------
(* Claims about generateSensorEvent, continued (SpecDetect).               *)

\* base_p and every weather penalty of the sensor lie in [0,1]
InUnitRange(sensor) ==
    /\ RatLeq(Zero, sensor.base_p) /\ RatLeq(sensor.base_p, One)
    /\ \A w \in DOMAIN sensor.weather_penalty :
          RatLeq(Zero, sensor.weather_penalty[w]) /\ RatLeq(sensor.weather_penalty[w], One)

\* C31: generateSensorEvent always returns (it never raises), and for base_p
\* and penalties in [0,1] every event it emits has 0 < confidence <= base_p;
\* an actor exactly at the range boundary, a sensor with base_p 0 and a sensor
\* with range 0 emit no event.
C31_ConfidenceBounds ==
    gsIn.called =>
        /\ gsOut.called /\ gsOut.draws \in {0, 1} /\ Len(gsOut.ev) <= 1
        /\ (InUnitRange(gsIn.sensor) /\ gsOut.ev # <<>>) =>
              /\ RatLess(Zero, gsOut.ev[1].confidence)
              /\ RatLeq(gsOut.ev[1].confidence, gsIn.sensor.base_p)
        /\ ( \/ CallDistance = gsIn.sensor.range
             \/ gsIn.sensor.base_p = Zero
             \/ gsIn.sensor.range = 0 ) => gsOut.ev = <<>>

\* a draw of 0 for an actor on the boundary of a sensor with base_p 1, after a
\* call that emitted an event of confidence base_p
C31_Witness ==
    /\ gsIn.called /\ gsPrev.called /\ InUnitRange(gsIn.sensor)
    /\ gsIn.sensor.range = 150 /\ CallDistance = 150
    /\ gsIn.sensor.base_p = One /\ gsIn.r = Zero /\ gsOut.draws = 1
    /\ gsPrev.prob = One

-----------------------------------------------------------------------------
(* The seed of a run: the text of the seed field, handleStartScenario's    *)
(* parseInt(seed, 10) || Date.now(), the PRNG made from it, the civilians  *)
(* drawn from that PRNG and the draws the run makes afterwards.  The same  *)
(* text is used by two runs started at different moments.                  *)

MaxSeededRuns == 2     \* runs started with one seed text
MaxRunDraws == 2       \* draws a run makes after its civilians

DigitValue == ("0" :> 0) @@ ("1" :> 1) @@ ("2" :> 2) @@ ("3" :> 3) @@ ("4" :> 4)
              @@ ("5" :> 5) @@ ("6" :> 6) @@ ("7" :> 7) @@ ("8" :> 8) @@ ("9" :> 9)

\* the text without its leading white space
RECURSIVE TrimStart(_)
TrimStart(text) ==
    IF text # <<>> /\ text[1] = " " THEN TrimStart(Tail(text)) ELSE text

\* the digits a text starts with
RECURSIVE LeadingDigits(_)
LeadingDigits(text) ==
    IF text # <<>> /\ text[1] \in DOMAIN DigitValue
    THEN <<text[1]>> \o LeadingDigits(Tail(text))
    ELSE <<>>

RECURSIVE DecimalValue(_)
DecimalValue(digits) ==
    IF digits = <<>> THEN 0
    ELSE 10 * DecimalValue(SubSeq(digits, 1, Len(digits) - 1))
         + DigitValue[digits[Len(digits)]]

\* parseInt(text, 10): white space skipped, an optional sign, then the digits
\* up to the first other character; NaN when there is no digit
parseInt(text) ==
    LET s == TrimStart(text)
        signed == s # <<>> /\ s[1] \in {"+", "-"}
        digits == LeadingDigits(IF signed THEN Tail(s) ELSE s)
    IN IF digits = <<>> THEN [nan |-> TRUE, value |-> 0]
       ELSE [nan |-> FALSE,
             value |-> IF signed /\ s[1] = "-" THEN -DecimalValue(digits)
                       ELSE DecimalValue(digits)]

\* the number n in the limbs of the PRNG model
NumberWord(n) == Word((n - (n % Limb)) \div Limb, n % Limb)

\* parseInt(seed, 10) || Date.now(): NaN and 0 are falsy
MasterSeed(text, now) ==
    LET parsed == parseInt(text)
    IN IF parsed.nan \/ parsed.value = 0 THEN now ELSE NumberWord(parsed.value)

\* Math.floor(value * len) for the value v / 4294967296
FloorMulWord(v, len) == (v.hi * len + ((v.lo * len) \div Limb)) \div Limb

\* getRandomPoiName(prng, exclude): the object after the call and the name
getRandomPoiNameOf(p, exclude) ==
    LET poiNames == SelectSeq(PoiNames, LAMBDA nm : nm \notin exclude)
        res == next(p)
    IN [prng |-> res.prng, name |-> poiNames[FloorMulWord(res.value, Len(poiNames)) + 1]]

\* the civilians of handleStartScenario drawn from the PRNG p, and p afterwards
RECURSIVE SeededCivilians(_, _)
SeededCivilians(p, i) ==
    IF i >= CIVILIAN_COUNT THEN [prng |-> p, civilians |-> <<>>]
    ELSE LET first == getRandomPoiNameOf(p, {})
             second == getRandomPoiNameOf(first.prng, {first.name})
             rest == SeededCivilians(second.prng, i + 1)
         IN [prng |-> rest.prng,
             civilians |->
                <<[id |-> <<"civ", i>>, type |-> "civilian", pos |-> PoiPos(first.name),
                   path |-> <<PoiPos(first.name), PoiPos(second.name)>>,
                   pathIndex |-> 0]>> \o rest.civilians]

\* the texts of the seed field tried: "42", "0", "7", "-1", " 12", "4x", "x", "00"
SeedTexts == {<<"4", "2">>, <<"0">>, <<"7">>, <<"-", "1">>, <<" ", "1", "2">>,
              <<"4", "x">>, <<"x">>, <<"0", "0">>}

\* values of Date.now() at the start of a run: 1730480000000 and later ones
StartTimes == <<Word(26405029, 19456), Word(26405029, 24456), Word(26405029, 29456)>>

\* onSeedChange: the user types the seed
TypeSeed ==
    /\ ~prngs.made
    /\ \E text \in SeedTexts :
          prngs' = [made |-> TRUE, text |-> text, at |-> 0, runs |-> <<>>]
    /\ UNCHANGED <<orchVars, detVars, ruleVars, sessVars>>

\* lines 107-124 of handleStartScenario, at a later moment than the run before
StartSeeded ==
    /\ prngs.made /\ "text" \in DOMAIN prngs
    /\ Len(prngs.runs) < MaxSeededRuns
    /\ \E t \in (prngs.at + 1)..Len(StartTimes) :
          LET masterSeed == MasterSeed(prngs.text, StartTimes[t])
          IN \E made \in {SeededCivilians(PRNG(masterSeed), 0)} :
                prngs' = [prngs EXCEPT
                            !.at = t,
                            !.runs = Append(@, [masterSeed |-> masterSeed,
                                                prng |-> made.prng,
                                                civilians |-> made.civilians,
                                                draws |-> <<>>])]
    /\ UNCHANGED <<orchVars, detVars, ruleVars, sessVars>>

\* the run draws from prngRef.current (a new path for a civilian, a detection)
DrawSeeded ==
    /\ prngs.made /\ "text" \in DOMAIN prngs
    /\ \E i \in DOMAIN prngs.runs :
          /\ Len(prngs.runs[i].draws) < MaxRunDraws
          /\ \E res \in {next(prngs.runs[i].prng)} :
                prngs' = [prngs EXCEPT !.runs[i].prng = res.prng,
                                       !.runs[i].draws = Append(@, res.value)]
    /\ UNCHANGED <<orchVars, detVars, ruleVars, sessVars>>

NextSeed == TypeSeed \/ StartSeeded \/ DrawSeeded

SpecSeed == Init /\ [][NextSeed]_vars

-----------------------------------------------------------------------------
(* Claims about the seed of a run (SpecSeed).                              *)

\* C32: for every text of the seed field that parses to an integer, 0
\* included, the PRNG of a run is made from exactly that integer, so two runs
\* with the same seed get the same civilians and the same draws.
C32_SeedReproduces ==
    (prngs.made /\ "text" \in DOMAIN prngs /\ ~parseInt(prngs.text).nan) =>
        /\ \A i \in DOMAIN prngs.runs :
              prngs.runs[i].masterSeed = NumberWord(parseInt(prngs.text).value)
        /\ \A i, j \in DOMAIN prngs.runs :
              /\ prngs.runs[i].civilians = prngs.runs[j].civilians
              /\ \A k \in DOMAIN prngs.runs[i].draws \cap DOMAIN prngs.runs[j].draws :
                    prngs.runs[i].draws[k] = prngs.runs[j].draws[k]

-----------------------------------------------------------------------------
(* Claims about the rules of a run (SpecSession).                          *)

\* the rules a patch reply can put on display
PatchRules ==
    {FallbackPatch.rule} \cup {reply.value.rule : reply \in {q \in PatchReplies : q.value.hasRule}}

\* the scenario's rules without the persistent and group rules
ScenarioRulesFiltered(idx) ==
    SelectSeq(SCENARIO_RULES[idx + 1],
              LAMBDA r : r.type \notin {"persistent_sighting", "group_sighting"})

\* C33: the rule set a run evaluates is exactly the current scenario's rules
\* without every persistent_sighting and group_sighting rule; a patch rule
\* applied after a BYPASSED run replaces the rule of the same id or is
\* appended to the active rules on display, and is in no run's rule set.
C33_RunRulesFromScenario ==
    /\ (session.mounted /\ session.pc \in {"planning", "running"}) =>
          /\ session.currentRules = ScenarioRulesFiltered(session.scenarioIndex)
          /\ session.activeRules = session.currentRules
    /\ (session.mounted /\ session.pc \in {"running", "patching", "analysing"}) =>
          /\ rules = ScenarioRulesFiltered(session.scenarioIndex)
          /\ \A k \in DOMAIN rules : rules[k] \notin PatchRules
    /\ (session.mounted /\ session.pc = "analysing") =>
          LET patch == session.generatedPatch.rule
              same == {k \in DOMAIN rules : rules[k].id = patch.id}
          IN /\ session.simulationVerdict = "BYPASSED"
             /\ session.activeRules =
                   SelectSeq(rules, LAMBDA r : r.id # patch.id) \o <<patch>>
             /\ Len(session.activeRules) = Len(rules) + 1 - Cardinality(same)

\* the second run of a view is evaluating scenario 2's rules: the first run
\* of the view ended BYPASSED and its patch went on display (scenarioIndex
\* advances only at the end of handleStartScenario)
C33_Witness ==
    /\ session.mounted /\ session.opens = 1 /\ session.starts = 2
    /\ session.scenarioIndex = 1 /\ session.pc = "running"
    /\ lastTick.evaluated
    /\ rules = <<HighConfidence("high_confidence_sighting_v2", 80, 100)>>

-----------------------------------------------------------------------------
(* Claims about runDetectionLogic, continued (SpecRules).                  *)

\* the rules have pairwise distinct ids
DistinctIds(rs) == \A i, j \in DOMAIN rs : rs[i].id = rs[j].id => i = j

\* every persistent rule asks for at least one detection
MinDetectionsPositive(rs) ==
    \A i \in DOMAIN rs :
        rs[i].type = "persistent_sighting" => rs[i].params.min_detections >= 1

\* C34: for rules with pairwise distinct ids and min_detections >= 1, a call
\* of runDetectionLogic emits an alert only when its new events include an
\* event of the adversary; civilian events alone never produce an alert.
C34_AlertNeedsAdversaryEvent ==
    (rdl.n > 0 /\ DistinctIds(rules) /\ MinDetectionsPositive(rules)) =>
        (rdl.out.newAlerts # <<>> =>
            AdversaryEvents # <<>>)

\* a call with a civilian event and no adversary event, evaluated against a
\* persistent rule whose stored history holds an adversary event: no alert
C34_Witness ==
    /\ rdl.n > 1 /\ rules = <<Persistent("ps", 2, 2)>>
    /\ rdl.out.evaluated /\ ~rdl.out.threw
    /\ CivilianEvents # <<>> /\ AdversaryEvents = <<>>
    /\ "ps" \in DOMAIN rdl.stateBefore /\ rdl.stateBefore["ps"].list # <<>>
    /\ rdl.out.newAlerts = <<>>

-----------------------------------------------------------------------------
(* Claims about the shipped scenarios (SpecSession).                       *)

\* the sensor of the running scenario with the given id
SensorOf(id) == sensors[CHOOSE k \in DOMAIN sensors : sensors[k].id = id]

\* C35: for both shipped scenarios under clear weather a run started by
\* handleStartScenario never ends DETECTED: only high_confidence_sighting
\* rules are active, every adversary event has a confidence of at most
\* 0.8 x base_p, which is below min_confidence, and the verdict of a run that
\* has ended is BYPASSED.
C35_ShippedRunsBypassed ==
    session.mounted =>
        /\ resolved # <<"DETECTED">>
        /\ session.simulationVerdict # "DETECTED"
        /\ (~intervalActive /\ session.pc = "running" /\ runStarted) =>
              resolved = <<"BYPASSED">>
        /\ session.pc = "running" =>
              /\ \A k \in DOMAIN rules : rules[k].type = "high_confidence_sighting"
              /\ \A i \in DOMAIN lastTick.newEvents :
                    LET e == lastTick.newEvents[i]
                    IN e.actorId = <<"adv", 1>> =>
                          /\ RatLeq(e.confidence,
                                    RatMul(Rat(8, 10), SensorOf(e.sensorId).base_p))
                          /\ \A k \in DOMAIN rules :
                                RatLess(e.confidence, rules[k].params.min_confidence)

\* scenario 2: the adversary was seen standing on sensor S11 (base_p 0.85),
\* with confidence 0.68, and the run has ended BYPASSED
C35_Witness ==
    /\ session.mounted /\ session.scenarioIndex = 1 /\ session.pc = "running"
    /\ resolved = <<"BYPASSED">>
    /\ \E i \in DOMAIN events :
          /\ events[i].actorId = <<"adv", 1>> /\ events[i].sensorId = "S11"
          /\ events[i].confidence = Rat(68, 100)

-----------------------------------------------------------------------------
(* Claims about runSimulationPromise, continued (Spec).                    *)

\* the number of waypoints of the adversary's path
PathLength == Len(TheAdversary(currentActors).path)

\* C36: with an adversary path of L >= 2 waypoints, pathIndex grows by
\* exactly one in every tick of the run (it equals the number of ticks), the
\* verdict is reached no later than tick L - 1, and detection is evaluated
\* only with the adversary on the waypoints 1 to L - 2, never on the first or
\* the last.
C36_OneWaypointPerTick ==
    (runStarted /\ PathLength >= 2) =>
        /\ TheAdversary(currentActors).pathIndex = tickCount
        /\ tickCount <= PathLength - 1
        /\ tickCount = PathLength - 1 => (resolved # <<>> /\ ~intervalActive)
        /\ (lastTick.n > 0 /\ lastTick.detectionRan) =>
              /\ lastTick.n = tickCount
              /\ TheAdversary(currentActors).pathIndex \in 1..(PathLength - 2)
        /\ (lastTick.n > 0 /\ TheAdversary(currentActors).pathIndex = PathLength - 1) =>
              ~lastTick.detectionRan

\* a path of four waypoints: detection ran on waypoint 2, the adversary was
\* seen there and the run goes on
C36_Witness ==
    /\ runStarted /\ PathLength = MaxPathLen /\ tickCount = 2
    /\ TheAdversary(currentActors).pathIndex = 2
    /\ lastTick.detectionRan /\ lastTick.newEvents # <<>> /\ resolved = <<>>


\* C37: when the adversary's path has at most two waypoints (the two-point
\* fallback path among them), the run ends BYPASSED on its first tick and no
\* detection is performed, whatever the sensors and the rules.
C37_ShortPathBypassed ==
    (runStarted /\ PathLength <= 2) =>
        /\ tickCount <= 1
        /\ tickCount = 0 => (resolved = <<>> /\ intervalActive)
        /\ tickCount = 1 =>
              /\ resolved = <<"BYPASSED">> /\ ~intervalActive
              /\ lastTick.bypass /\ ~lastTick.detectionRan /\ ~lastTick.evaluated
              /\ lastTick.detDraws = 0 /\ lastTick.newAlerts = <<>>
              /\ events = <<>> /\ detectionState = EmptyState

\* the fallback path from Parking to Meadow, with the most sensitive rule
\* and a sensor the adversary starts in range of
C37_Witness ==
    /\ runStarted /\ tickCount = 1 /\ resolved = <<"BYPASSED">>
    /\ TheAdversary(currentActors).path = <<PoiPos("Parking"), PoiPos("Meadow")>>
    /\ \E k \in DOMAIN rules : rules[k].id = "hc_low"
    /\ \E j \in DOMAIN sensors :
          getDistance(PoiPos("Parking"), sensors[j].pos) <= sensors[j].range


\* the entries of the rolling state the evaluation of a rule reads and
\* writes: the history under the rule id for the two stateful types, and the
\* cooldown under '<id>-cooldown' for a group rule
KeysOf(rule) ==
    CASE rule.type = "persistent_sighting" -> {rule.id}
      [] rule.type = "group_sighting" -> {rule.id, rule.id \o "-cooldown"}
      [] OTHER -> {}

\* the evaluation of the first k rules in the last tick
AfterRules(k) ==
    EvalRules(1, SubSeq(rules, 1, k),
              [alerts |-> <<>>, state |-> lastTick.stateBefore, threw |-> FALSE,
               input |-> lastTick.stateBefore],
              lastTick.newEvents, AdversaryId(currentActors), clock)

\* the entries the evaluation of rule k changed in the last tick
WrittenBy(k) ==
    LET before == AfterRules(k - 1).state
        after == AfterRules(k).state
    IN {key \in DOMAIN after : key \notin DOMAIN before \/ after[key] # before[key]}

\* C38: for a rule set with pairwise distinct ids, the entries written while
\* one rule is evaluated (its history under the rule id, its cooldown under
\* '<id>-cooldown') are never read or overwritten by the evaluation of another
\* rule, so no evaluation finds a value of the wrong kind under its key.
C38_RuleStateIsolated ==
    (lastTick.n > 0 /\ lastTick.newEvents # <<>> /\ DistinctIds(rules)) =>
        /\ \A i, j \in DOMAIN rules :
              i # j => WrittenBy(i) \cap KeysOf(rules[j]) = {}
        /\ ~lastTick.threw

-----------------------------------------------------------------------------
(* runDetectionLogic with two sensors at one place, so that one call can   *)
(* return two events of the adversary, and with rule sets that hold two    *)
(* rules of one type.                                                      *)

\* two sensors at position 0: at distance d the adversary's confidence is
\* (86 - d) / 100 with the first and 0.8 x that with the second
BurstSensors ==
    <<[id |-> "R01", pos |-> 0, range |-> 86, base_p |-> Rat(43, 40),
       weather_penalty |-> [w \in {} |-> Zero]],
      [id |-> "R02", pos |-> 0, range |-> 86, base_p |-> Rat(86, 100),
       weather_penalty |-> [w \in {} |-> Zero]]>>

BurstRuleSets == {
    <<Group("gs", 100, 2, 1)>>,
    <<Group("gs0", 100, 0, 1)>>,
    <<HighConfidence("hc_a", 1, 2), HighConfidence("hc_b", 6, 10)>>,
    <<Persistent("ps1", 2, 1), HighConfidence("hc", 1, 2)>>
  }

\* the caller chooses the rules of the sequence; the sensors are the pair
ConfigureBurst ==
    /\ ~runStarted
    /\ rules = <<>>
    /\ rdl.n = 0
    /\ \E rs \in BurstRuleSets, skew \in ClockSkews :
        /\ rules' = rs
        /\ rdl' = [n |-> 0, skew |-> skew, state2 |-> EmptyState,
                   streak |-> 0, streakFirst |-> 0, fresh |-> TRUE,
                   afterAlert |-> FALSE,
                   fired |-> [id \in {} |-> 0]]
    /\ sensors' = BurstSensors
    /\ detectionState' = EmptyState
    /\ UNCHANGED <<runStarted, intervalActive, resolved, currentActors, events,
                   clock, prngCalls, tickCount, lastTick, detVars, prngVars, sessVars>>

NextBurst == ConfigureBurst \/ CallRules

SpecBurst == Init /\ [][NextBurst]_vars

-----------------------------------------------------------------------------
(* Claims about the alerts of one call (SpecBurst).                        *)

\* every stateful rule has a window of at least 0 seconds
WindowsNonNegative(rs) ==
    \A i \in DOMAIN rs :
        "time_window_s" \in DOMAIN rs[i].params => rs[i].params.time_window_s >= 0

\* C39: one call of runDetectionLogic emits at most one alert per rule (for
\* time_window_s >= 0), also when several adversary events of the call each
\* satisfy the rule.
C39_OneAlertPerRule ==
    (rdl.n > 0 /\ DistinctIds(rules) /\ WindowsNonNegative(rules)) =>
        \A k \in DOMAIN rules : Len(AlertsOf(rdl.out.newAlerts, rules[k].id)) <= 1

\* a group rule with a window of 0 s and min_actors 1: two adversary events
\* in one call, each of which satisfies the rule, and one alert
C39_Witness ==
    /\ rdl.n > 0 /\ rules = <<Group("gs0", 100, 0, 1)>>
    /\ Len(AdversaryEvents) = 2
    /\ Len(AlertsOf(rdl.out.newAlerts, "gs0")) = 1
    /\ rdl.out.updatedState["gs0-cooldown"] = NumVal(rdl.now)


\* C40: the alerts one call of runDetectionLogic emits have pairwise distinct
\* ids, also when several rules of the same type fire in that call.
C40_AlertIdsDistinct ==
    rdl.n > 0 =>
        \A i, j \in DOMAIN rdl.out.newAlerts :
            rdl.out.newAlerts[i].id = rdl.out.newAlerts[j].id => i = j

====
